---- MODULE Spec2Model ----
(***************************************************************************)
(* Model of the terminal file explorer (package ui): the application       *)
(* Model (browse mode / file-view mode) and the FileViewer state machine   *)
(* (scrolling, command mode, search).  Go strings are TLA+ strings, Go     *)
(* slices are sequences (index i in Go is index i+1 here), a nil           *)
(* *FileViewer is NoViewer.                                                *)
(***************************************************************************)
EXTENDS Integers, Sequences, FiniteSets, TLC

VARIABLES Mode, FileViewer, Width, Height, Cursor, CurrentPath

vars == <<Mode, FileViewer, Width, Height, Cursor, CurrentPath>>

----------------------------------------------------------------------------
(* Bounds of the model.                                                    *)

\* ScrollPos is kept within -ScrollFloor..ScrollCap (half-page steps with a
\* negative page size move ScrollPos without limit).
ScrollCap == 16

ScrollFloor == 4

----------------------------------------------------------------------------
(* Go's strings package and integer arithmetic.                            *)

Max(a, b) == IF a > b THEN a ELSE b

\* Go's integer division truncates toward zero.
GoDiv(a, b) == IF a >= 0 THEN a \div b ELSE -((-a) \div b)

CharAt(s, i) == SubSeq(s, i, i)

Drop(s, n) == SubSeq(s, n + 1, Len(s))

Take(s, n) == SubSeq(s, 1, n)

IsSpace(c) == c \in {" ", "\t", "\n", "\r"}

LowerChar(c) ==
    CASE c = "A" -> "a"
      [] c = "B" -> "b"
      [] c = "G" -> "g"
      [] c = "N" -> "n"
      [] c = "X" -> "x"
      [] OTHER -> c

RECURSIVE ToLower(_)
ToLower(s) ==
    IF s = "" THEN "" ELSE LowerChar(CharAt(s, 1)) \o ToLower(Drop(s, 1))

HasPrefix(s, p) == Len(s) >= Len(p) /\ Take(s, Len(p)) = p

TrimPrefix(s, p) == IF HasPrefix(s, p) THEN Drop(s, Len(p)) ELSE s

\* strings.Index, 0-based, -1 when sub does not occur in s.
IndexFrom(s, sub, i) ==
    LET at == { j \in i..(Len(s) - Len(sub)) : SubSeq(s, j + 1, j + Len(sub)) = sub }
    IN  IF at = {} THEN -1 ELSE CHOOSE j \in at : \A k \in at : j <= k

Index(s, sub) == IndexFrom(s, sub, 0)

Contains(s, sub) == Index(s, sub) >= 0

RECURSIVE TrimLeft(_)
TrimLeft(s) ==
    IF s # "" /\ IsSpace(CharAt(s, 1)) THEN TrimLeft(Drop(s, 1)) ELSE s

RECURSIVE TrimRight(_)
TrimRight(s) ==
    IF s # "" /\ IsSpace(CharAt(s, Len(s))) THEN TrimRight(Take(s, Len(s) - 1)) ELSE s

TrimSpace(s) == TrimRight(TrimLeft(s))

\* strings.ReplaceAll for a non-empty old.
RECURSIVE ReplaceAll(_, _, _)
ReplaceAll(s, old, new) ==
    LET i == Index(s, old) IN
    IF i < 0 THEN s
    ELSE Take(s, i) \o new \o ReplaceAll(Drop(s, i + Len(old)), old, new)

\* strings.Split for a non-empty separator: always at least one element.
RECURSIVE Split(_, _)
Split(s, sep) ==
    LET i == Index(s, sep) IN
    IF i < 0 THEN <<s>>
    ELSE <<Take(s, i)>> \o Split(Drop(s, i + Len(sep)), sep)

\* Length of the leading run of non-space characters of s.
RECURSIVE WordLen(_)
WordLen(s) ==
    IF s = "" \/ IsSpace(CharAt(s, 1)) THEN 0 ELSE 1 + WordLen(Drop(s, 1))

\* strings.Fields: the maximal runs of non-space characters.
RECURSIVE Fields(_)
Fields(s) ==
    LET t == TrimLeft(s) IN
    IF t = "" THEN << >>
    ELSE <<Take(t, WordLen(t))>> \o Fields(Drop(t, WordLen(t)))

RECURSIVE Join(_, _)
Join(parts, sep) ==
    IF parts = << >> THEN ""
    ELSE IF Len(parts) = 1 THEN parts[1]
    ELSE parts[1] \o sep \o Join(Tail(parts), sep)

----------------------------------------------------------------------------
(* The file system the browser shows: one directory of regular files.      *)

maxFileSize == 10 * 1024 * 1024

NoError == "<nil>"

\* A nil *FileViewer.
NoViewer == [nil |-> TRUE]

LongFile == "b\na\nab\nb\na b\nxAB\n\na\nb\nAb"

CrlfFile == "a\r\nB\tb"

\* types.FileItem of each directory entry, with what the system returns
\* for it: Stat and Size from os.Stat, Read and Data from os.ReadFile,
\* Tokenise from the highlighter.
Items ==
    << [Name |-> "long.txt", IsDir |-> FALSE, Stat |-> NoError,
        Size |-> Len(LongFile), Read |-> NoError, Data |-> LongFile,
        Tokenise |-> "ok"],
       [Name |-> "crlf.txt", IsDir |-> FALSE, Stat |-> NoError,
        Size |-> Len(CrlfFile), Read |-> NoError, Data |-> CrlfFile,
        Tokenise |-> "error"],
       [Name |-> "huge.bin", IsDir |-> FALSE, Stat |-> NoError,
        Size |-> maxFileSize + 1, Read |-> NoError, Data |-> "",
        Tokenise |-> "ok"] >>

\* The directory the program is started in (os.Getwd), whose listing the
\* files above are.
WorkingDirectory == "C:\\a"

\* Terminal sizes <<width, height>> a WindowSizeMsg can carry.
Sizes == { <<20, 4>>, <<40, 12>> }

----------------------------------------------------------------------------
(* FileViewer: construction and loading.                                   *)

\* The ESC byte (0x1b) that starts an ANSI colour sequence.
ESC == "^"

\* The line splitting with a carriage return read as a line break of its
\* own.
NormalizedLinesCrBreaks(data) ==
    LET c1 == ReplaceAll(data, "\r", "\n")
        c3 == ReplaceAll(c1, "\t", "    ")
    IN  Split(c3, "\n")

\* The line splitting with a bare carriage return turned into a line break.
NormalizedLinesBareCrBreaks(data) ==
    LET c1 == ReplaceAll(data, "\r\n", "\n")
        c2 == ReplaceAll(c1, "\r", "\n")
        c3 == ReplaceAll(c2, "\t", "    ")
    IN  Split(c3, "\n")

\* The line splitting of loadFile: line endings normalized, tabs expanded.
NormalizedLines(data) ==
    LET c1 == ReplaceAll(data, "\r\n", "\n")
        c2 == ReplaceAll(c1, "\r", "")
        c3 == ReplaceAll(c2, "\t", "    ")
    IN  Split(c3, "\n")

ColourLine(line) ==
    IF line = "" THEN "" ELSE ESC \o "[1m" \o line \o ESC \o "[0m"

\* What formatter.Format writes for the lines: each line coloured, or, when
\* the highlighter leaves out the end of its input ("fewer"), all but the
\* last line.
Formatted(lines, outcome) ==
    LET n == IF outcome = "fewer" THEN Len(lines) - 1 ELSE Len(lines)
    IN  Join([i \in 1..n |-> ColourLine(lines[i])], "\n")

\* applySyntaxHighlighting telling the user when the highlighter failed.
applySyntaxHighlightingReports(fv, item) ==
    IF item.Tokenise = "error"
    THEN [fv EXCEPT !.HighlightedContent = fv.Content,
                    !.StatusMessage = "Syntax highlighting failed"]
    ELSE LET highlightedContent ==
                 ReplaceAll(ReplaceAll(Formatted(fv.Content, item.Tokenise),
                                       "\r\n", "\n"),
                            "\r", "")
         IN  [fv EXCEPT !.HighlightedContent = Split(highlightedContent, "\n")]

\* applySyntaxHighlighting: the plain lines when Tokenise (or Format)
\* fails, else the formatter's output split into lines.
applySyntaxHighlighting(fv, item) ==
    IF item.Tokenise = "error"
    THEN [fv EXCEPT !.HighlightedContent = fv.Content]
    ELSE LET highlightedContent ==
                 ReplaceAll(ReplaceAll(Formatted(fv.Content, item.Tokenise),
                                       "\r\n", "\n"),
                            "\r", "")
         IN  [fv EXCEPT !.HighlightedContent = Split(highlightedContent, "\n")]

\* loadFile accepting only the sizes below the ceiling.
loadFileBelowCeiling(fv, item) ==
    IF item.Stat # NoError
    THEN [fv EXCEPT !.Err = item.Stat]
    ELSE IF item.Size >= maxFileSize
    THEN [fv EXCEPT !.Err = "file too large (max 10MB)"]
    ELSE IF item.Read # NoError
    THEN [fv EXCEPT !.Err = item.Read]
    ELSE LET loaded == [fv EXCEPT !.Content = NormalizedLines(item.Data)]
         IN  IF fv.UseSyntaxHighlight
             THEN applySyntaxHighlighting(loaded, item)
             ELSE loaded

loadFile(fv, item) ==
    IF item.Stat # NoError
    THEN [fv EXCEPT !.Err = item.Stat]
    ELSE IF item.Size > maxFileSize
    THEN [fv EXCEPT !.Err = "file too large (max 10MB)"]
    ELSE IF item.Read # NoError
    THEN [fv EXCEPT !.Err = item.Read]
    ELSE LET loaded == [fv EXCEPT !.Content = NormalizedLines(item.Data)]
         IN  IF fv.UseSyntaxHighlight
             THEN applySyntaxHighlighting(loaded, item)
             ELSE loaded

\* NewFileViewer starting with line wrapping on.
NewFileViewerWrapOn(item) ==
    loadFile([FilePath |-> item.Name,
              FileName |-> item.Name,
              Content |-> << >>,
              HighlightedContent |-> << >>,
              ScrollPos |-> 0,
              Width |-> 0,
              Height |-> 0,
              Err |-> NoError,
              UseSyntaxHighlight |-> TRUE,
              WrapLines |-> TRUE,
              CommandMode |-> FALSE,
              CommandBuffer |-> "",
              StatusMessage |-> "",
              SearchTerm |-> "",
              SearchMatches |-> << >>,
              CurrentMatchIndex |-> -1],
             item)

NewFileViewer(item) ==
    loadFile([FilePath |-> item.Name,
              FileName |-> item.Name,
              Content |-> << >>,
              HighlightedContent |-> << >>,
              ScrollPos |-> 0,
              Width |-> 0,
              Height |-> 0,
              Err |-> NoError,
              UseSyntaxHighlight |-> TRUE,
              WrapLines |-> FALSE,
              CommandMode |-> FALSE,
              CommandBuffer |-> "",
              StatusMessage |-> "",
              SearchTerm |-> "",
              SearchMatches |-> << >>,
              CurrentMatchIndex |-> -1],
             item)

----------------------------------------------------------------------------
(* FileViewer: search.                                                     *)

\* The scan loop recording line numbers (from 1) instead of indices.
RECURSIVE ScanMatchesLineNumbers(_, _, _)
ScanMatchesLineNumbers(content, term, i) ==
    IF i >= Len(content) THEN << >>
    ELSE (IF Contains(ToLower(content[i + 1]), term) THEN <<i + 1>> ELSE << >>)
         \o ScanMatchesLineNumbers(content, term, i + 1)

\* ScanMatches comparing the line as it is, not lower-cased.
RECURSIVE ScanMatchesCaseSensitive(_, _, _)
ScanMatchesCaseSensitive(content, term, i) ==
    IF i >= Len(content) THEN << >>
    ELSE (IF Contains(content[i + 1], term) THEN <<i>> ELSE << >>)
         \o ScanMatchesCaseSensitive(content, term, i + 1)

\* The scan loop of performSearch: the 0-based indices, in scan order, of
\* the lines whose lower-cased text contains term.
RECURSIVE ScanMatches(_, _, _)
ScanMatches(content, term, i) ==
    IF i >= Len(content) THEN << >>
    ELSE (IF Contains(ToLower(content[i + 1]), term) THEN <<i>> ELSE << >>)
         \o ScanMatches(content, term, i + 1)

\* performSearch returning to the top of the file when the search is
\* cleared.
performSearchClearScrolls(fv, term) ==
    IF term = ""
    THEN [fv EXCEPT !.SearchTerm = "",
                    !.SearchMatches = << >>,
                    !.CurrentMatchIndex = -1,
                    !.ScrollPos = 0,
                    !.StatusMessage = "Search cleared"]
    ELSE LET needle == ToLower(term)
             matches == ScanMatches(fv.Content, needle, 0)
         IN  IF Len(matches) > 0
             THEN [fv EXCEPT !.SearchTerm = needle,
                             !.SearchMatches = matches,
                             !.CurrentMatchIndex = 0,
                             !.ScrollPos = matches[1],
                             !.StatusMessage =
                                 "Found " \o ToString(Len(matches))
                                 \o " match(es) - n: next, N: prev"]
             ELSE [fv EXCEPT !.SearchTerm = needle,
                             !.SearchMatches = matches,
                             !.CurrentMatchIndex = -1,
                             !.StatusMessage = "Pattern not found: " \o term]

\* performSearch reporting the lower-cased needle and moving to the top
\* when nothing is found.
performSearchNeedleStatus(fv, term) ==
    IF term = ""
    THEN [fv EXCEPT !.SearchTerm = "",
                    !.SearchMatches = << >>,
                    !.CurrentMatchIndex = -1,
                    !.StatusMessage = "Search cleared"]
    ELSE LET needle == ToLower(term)
             matches == ScanMatches(fv.Content, needle, 0)
         IN  IF Len(matches) > 0
             THEN [fv EXCEPT !.SearchTerm = needle,
                             !.SearchMatches = matches,
                             !.CurrentMatchIndex = 0,
                             !.ScrollPos = matches[1],
                             !.StatusMessage =
                                 "Found " \o ToString(Len(matches))
                                 \o " match(es) - n: next, N: prev"]
             ELSE [fv EXCEPT !.SearchTerm = needle,
                             !.SearchMatches = matches,
                             !.CurrentMatchIndex = -1,
                             !.StatusMessage = "Pattern not found: " \o needle]

\* performSearch leaving the current match as it was when it finds matches.
performSearchKeepsIndex(fv, term) ==
    IF term = ""
    THEN [fv EXCEPT !.SearchTerm = "",
                    !.SearchMatches = << >>,
                    !.CurrentMatchIndex = -1,
                    !.StatusMessage = "Search cleared"]
    ELSE LET needle == ToLower(term)
             matches == ScanMatches(fv.Content, needle, 0)
         IN  IF Len(matches) > 0
             THEN [fv EXCEPT !.SearchTerm = needle,
                             !.SearchMatches = matches,
                             !.ScrollPos = matches[1],
                             !.StatusMessage =
                                 "Found " \o ToString(Len(matches))
                                 \o " match(es) - n: next, N: prev"]
             ELSE [fv EXCEPT !.SearchTerm = needle,
                             !.SearchMatches = matches,
                             !.CurrentMatchIndex = -1,
                             !.StatusMessage = "Pattern not found: " \o term]

performSearch(fv, term) ==
    IF term = ""
    THEN [fv EXCEPT !.SearchTerm = "",
                    !.SearchMatches = << >>,
                    !.CurrentMatchIndex = -1,
                    !.StatusMessage = "Search cleared"]
    ELSE LET needle == ToLower(term)
             matches == ScanMatches(fv.Content, needle, 0)
         IN  IF Len(matches) > 0
             THEN [fv EXCEPT !.SearchTerm = needle,
                             !.SearchMatches = matches,
                             !.CurrentMatchIndex = 0,
                             !.ScrollPos = matches[1],
                             !.StatusMessage =
                                 "Found " \o ToString(Len(matches))
                                 \o " match(es) - n: next, N: prev"]
             ELSE [fv EXCEPT !.SearchTerm = needle,
                             !.SearchMatches = matches,
                             !.CurrentMatchIndex = -1,
                             !.StatusMessage = "Pattern not found: " \o term]

MatchStatus(i, n) == "Match " \o ToString(i + 1) \o " of " \o ToString(n)

\* nextMatch stopping at the last match instead of wrapping to the first.
nextMatchNoWrap(fv) ==
    IF Len(fv.SearchMatches) = 0
    THEN [fv EXCEPT !.StatusMessage = "No active search"]
    ELSE LET n == Len(fv.SearchMatches)
             i == IF fv.CurrentMatchIndex + 1 >= n THEN n - 1
                  ELSE fv.CurrentMatchIndex + 1
         IN  [fv EXCEPT !.CurrentMatchIndex = i,
                        !.ScrollPos = fv.SearchMatches[i + 1],
                        !.StatusMessage = MatchStatus(i, n)]

nextMatch(fv) ==
    IF Len(fv.SearchMatches) = 0
    THEN [fv EXCEPT !.StatusMessage = "No active search"]
    ELSE LET i == (fv.CurrentMatchIndex + 1) % Len(fv.SearchMatches)
         IN  [fv EXCEPT !.CurrentMatchIndex = i,
                        !.ScrollPos = fv.SearchMatches[i + 1],
                        !.StatusMessage = MatchStatus(i, Len(fv.SearchMatches))]

\* prevMatch decrementing the index before the empty-list guard.
prevMatchLateGuard(fv) ==
    LET d == fv.CurrentMatchIndex - 1
        i == IF d < 0 THEN Len(fv.SearchMatches) - 1 ELSE d
    IN  IF Len(fv.SearchMatches) = 0
        THEN [fv EXCEPT !.CurrentMatchIndex = d,
                        !.StatusMessage = "No active search"]
        ELSE [fv EXCEPT !.CurrentMatchIndex = i,
                        !.ScrollPos = fv.SearchMatches[i + 1],
                        !.StatusMessage = MatchStatus(i, Len(fv.SearchMatches))]

prevMatch(fv) ==
    IF Len(fv.SearchMatches) = 0
    THEN [fv EXCEPT !.StatusMessage = "No active search"]
    ELSE LET d == fv.CurrentMatchIndex - 1
             i == IF d < 0 THEN Len(fv.SearchMatches) - 1 ELSE d
         IN  [fv EXCEPT !.CurrentMatchIndex = i,
                        !.ScrollPos = fv.SearchMatches[i + 1],
                        !.StatusMessage = MatchStatus(i, Len(fv.SearchMatches))]

----------------------------------------------------------------------------
(* FileViewer: the command interpreter.                                    *)

\* The options of :set negating the flag instead of forcing it.
setOptionToggles(fv, option) ==
    CASE option \in {"wrap", "nowrap"} ->
             [fv EXCEPT !.WrapLines = ~fv.WrapLines,
                        !.StatusMessage = IF ~fv.WrapLines
                                          THEN "Line wrapping enabled"
                                          ELSE "Line wrapping disabled"]
      [] option \in {"syntax", "nosyntax"} ->
             [fv EXCEPT !.UseSyntaxHighlight = ~fv.UseSyntaxHighlight,
                        !.StatusMessage = IF ~fv.UseSyntaxHighlight
                                          THEN "Syntax highlighting enabled"
                                          ELSE "Syntax highlighting disabled"]
      [] OTHER ->
             [fv EXCEPT !.StatusMessage = "Unknown option '" \o option \o "'"]

setOption(fv, option) ==
    CASE option = "wrap" ->
             [fv EXCEPT !.WrapLines = TRUE,
                        !.StatusMessage = "Line wrapping enabled"]
      [] option = "nowrap" ->
             [fv EXCEPT !.WrapLines = FALSE,
                        !.StatusMessage = "Line wrapping disabled"]
      [] option = "syntax" ->
             [fv EXCEPT !.UseSyntaxHighlight = TRUE,
                        !.StatusMessage = "Syntax highlighting enabled"]
      [] option = "nosyntax" ->
             [fv EXCEPT !.UseSyntaxHighlight = FALSE,
                        !.StatusMessage = "Syntax highlighting disabled"]
      [] OTHER ->
             [fv EXCEPT !.StatusMessage = "Unknown option '" \o option \o "'"]

executeCommand(fv, buffer) ==
    LET cmd == TrimSpace(buffer)
        parts == Fields(cmd)
        command == parts[1]
    IN  IF cmd = "" THEN fv
        ELSE IF HasPrefix(cmd, "/") THEN performSearch(fv, TrimPrefix(cmd, "/"))
        ELSE IF Len(parts) = 0 THEN fv
        ELSE CASE command \in {"/", "search"} ->
                      IF Len(parts) < 2
                      THEN [fv EXCEPT !.StatusMessage =
                                          "Usage: :search <term> or :/<term>"]
                      ELSE performSearch(fv, Join(Tail(parts), " "))
               [] command = "set" ->
                      IF Len(parts) < 2
                      THEN [fv EXCEPT !.StatusMessage =
                                          "Error: :set requires an argument"]
                      ELSE setOption(fv, parts[2])
               [] command = "wrap" ->
                      [fv EXCEPT !.WrapLines = ~fv.WrapLines,
                                 !.StatusMessage =
                                     IF ~fv.WrapLines THEN "Line wrapping enabled"
                                     ELSE "Line wrapping disabled"]
               [] command = "syntax" ->
                      [fv EXCEPT !.UseSyntaxHighlight = ~fv.UseSyntaxHighlight,
                                 !.StatusMessage =
                                     IF ~fv.UseSyntaxHighlight
                                     THEN "Syntax highlighting enabled"
                                     ELSE "Syntax highlighting disabled"]
               [] command \in {"help", "h"} ->
                      [fv EXCEPT !.StatusMessage =
                          "Commands: :set [wrap|nowrap] | :set [syntax|nosyntax] | :help"]
               [] command \in {"n", "next"} -> nextMatch(fv)
               [] command \in {"N", "prev", "previous"} -> prevMatch(fv)
               [] command \in {"clear", "clearsearch"} -> performSearch(fv, "")
               [] OTHER ->
                      [fv EXCEPT !.StatusMessage =
                          "Unknown command '" \o command \o "' (try :help)"]

----------------------------------------------------------------------------
(* FileViewer.Update: one key event.                                       *)

\* The command-mode branch with cancel running the typed text.
UpdateCommandModeCancelRuns(fv, key) ==
    CASE key \in {"enter", "esc", "ctrl+c"} ->
             [executeCommand(fv, fv.CommandBuffer) EXCEPT
                 !.CommandMode = FALSE, !.CommandBuffer = ""]
      [] key = "backspace" ->
             IF Len(fv.CommandBuffer) > 0
             THEN [fv EXCEPT !.CommandBuffer = Take(@, Len(@) - 1)]
             ELSE fv
      [] OTHER ->
             IF Len(key) = 1
             THEN [fv EXCEPT !.CommandBuffer = @ \o key]
             ELSE fv

\* The command-mode branch with "enter" leaving the buffer as it is.
UpdateCommandModeKeepBuffer(fv, key) ==
    CASE key = "enter" ->
             [executeCommand(fv, fv.CommandBuffer) EXCEPT !.CommandMode = FALSE]
      [] key \in {"esc", "ctrl+c"} ->
             [fv EXCEPT !.CommandMode = FALSE,
                        !.CommandBuffer = "",
                        !.StatusMessage = ""]
      [] key = "backspace" ->
             IF Len(fv.CommandBuffer) > 0
             THEN [fv EXCEPT !.CommandBuffer = Take(@, Len(@) - 1)]
             ELSE fv
      [] OTHER ->
             IF Len(key) = 1
             THEN [fv EXCEPT !.CommandBuffer = @ \o key]
             ELSE fv

\* The command-mode branch of Update.
UpdateCommandMode(fv, key) ==
    CASE key = "enter" ->
             [executeCommand(fv, fv.CommandBuffer) EXCEPT
                 !.CommandMode = FALSE, !.CommandBuffer = ""]
      [] key \in {"esc", "ctrl+c"} ->
             [fv EXCEPT !.CommandMode = FALSE,
                        !.CommandBuffer = "",
                        !.StatusMessage = ""]
      [] key = "backspace" ->
             IF Len(fv.CommandBuffer) > 0
             THEN [fv EXCEPT !.CommandBuffer = Take(@, Len(@) - 1)]
             ELSE fv
      [] OTHER ->
             IF Len(key) = 1
             THEN [fv EXCEPT !.CommandBuffer = @ \o key]
             ELSE fv

\* maxScroll as the scroll keys compute it.
maxScrollOf(fv) == Max(0, Len(fv.Content) - (fv.Height - 6))

\* The navigation branch with the page keys moving a whole page.
UpdateNormalModeWholePage(fv, key) ==
    LET maxVisible == fv.Height - 6
        maxScroll == maxScrollOf(fv)
    IN  CASE key = ":" ->
                 [fv EXCEPT !.CommandMode = TRUE,
                            !.CommandBuffer = "",
                            !.StatusMessage = ""]
          [] key = "n" -> nextMatch(fv)
          [] key = "N" -> prevMatch(fv)
          [] key \in {"up", "k"} ->
                 IF fv.ScrollPos > 0 THEN [fv EXCEPT !.ScrollPos = @ - 1] ELSE fv
          [] key \in {"down", "j"} ->
                 IF fv.ScrollPos < maxScroll THEN [fv EXCEPT !.ScrollPos = @ + 1] ELSE fv
          [] key = "g" -> [fv EXCEPT !.ScrollPos = 0]
          [] key = "G" -> [fv EXCEPT !.ScrollPos = maxScroll]
          [] key \in {"pageup", "ctrl+u"} ->
                 [fv EXCEPT !.ScrollPos = Max(0, @ - maxVisible)]
          [] key \in {"pagedown", "ctrl+d"} ->
                 LET s == fv.ScrollPos + maxVisible
                 IN  [fv EXCEPT !.ScrollPos = IF s > maxScroll THEN maxScroll ELSE s]
          [] OTHER -> fv

\* The navigation branch with "g" also forgetting the current match.
UpdateNormalModeTopForgets(fv, key) ==
    LET maxVisible == fv.Height - 6
        maxScroll == maxScrollOf(fv)
    IN  CASE key = ":" ->
                 [fv EXCEPT !.CommandMode = TRUE,
                            !.CommandBuffer = "",
                            !.StatusMessage = ""]
          [] key = "n" -> nextMatch(fv)
          [] key = "N" -> prevMatch(fv)
          [] key \in {"up", "k"} ->
                 IF fv.ScrollPos > 0 THEN [fv EXCEPT !.ScrollPos = @ - 1] ELSE fv
          [] key \in {"down", "j"} ->
                 IF fv.ScrollPos < maxScroll THEN [fv EXCEPT !.ScrollPos = @ + 1] ELSE fv
          [] key = "g" -> [fv EXCEPT !.ScrollPos = 0, !.CurrentMatchIndex = -1]
          [] key = "G" -> [fv EXCEPT !.ScrollPos = maxScroll]
          [] key \in {"pageup", "ctrl+u"} ->
                 [fv EXCEPT !.ScrollPos = Max(0, @ - GoDiv(maxVisible, 2))]
          [] key \in {"pagedown", "ctrl+d"} ->
                 LET s == fv.ScrollPos + GoDiv(maxVisible, 2)
                 IN  [fv EXCEPT !.ScrollPos = IF s > maxScroll THEN maxScroll ELSE s]
          [] OTHER -> fv

\* The navigation branch of Update.
UpdateNormalMode(fv, key) ==
    LET maxVisible == fv.Height - 6
        maxScroll == maxScrollOf(fv)
    IN  CASE key = ":" ->
                 [fv EXCEPT !.CommandMode = TRUE,
                            !.CommandBuffer = "",
                            !.StatusMessage = ""]
          [] key = "n" -> nextMatch(fv)
          [] key = "N" -> prevMatch(fv)
          [] key \in {"up", "k"} ->
                 IF fv.ScrollPos > 0 THEN [fv EXCEPT !.ScrollPos = @ - 1] ELSE fv
          [] key \in {"down", "j"} ->
                 IF fv.ScrollPos < maxScroll THEN [fv EXCEPT !.ScrollPos = @ + 1] ELSE fv
          [] key = "g" -> [fv EXCEPT !.ScrollPos = 0]
          [] key = "G" -> [fv EXCEPT !.ScrollPos = maxScroll]
          [] key \in {"pageup", "ctrl+u"} ->
                 [fv EXCEPT !.ScrollPos = Max(0, @ - GoDiv(maxVisible, 2))]
          [] key \in {"pagedown", "ctrl+d"} ->
                 LET s == fv.ScrollPos + GoDiv(maxVisible, 2)
                 IN  [fv EXCEPT !.ScrollPos = IF s > maxScroll THEN maxScroll ELSE s]
          [] OTHER -> fv

\* Update without the early return of the command-mode branch: the key is
\* then also handled as a navigation key.
UpdateFallThrough(fv, key) ==
    IF fv.CommandMode
    THEN LET edited == UpdateCommandMode(fv, key)
         IN  IF edited.CommandMode /\ key # ":"
             THEN UpdateNormalMode(edited, key)
             ELSE edited
    ELSE UpdateNormalMode(fv, key)

Update(fv, key) ==
    IF fv.CommandMode THEN UpdateCommandMode(fv, key) ELSE UpdateNormalMode(fv, key)

----------------------------------------------------------------------------
(* FileViewer: rendering.  The box-drawing characters of the gutters are   *)
(* written "|" (numbered row) and ":" (continuation row), the arrows of    *)
(* the help line "up" and "down", the title has no pictogram; the styles   *)
(* of styles.go contribute their margins, colours are left to the          *)
(* terminal.                                                               *)

Min(a, b) == IF a < b THEN a ELSE b

RECURSIVE VisualFrom(_, _, _)
\* The loop of visualLength from byte i (0-based) on.
VisualFrom(s, i, inEscape) ==
    IF i >= Len(s) THEN 0
    ELSE LET c == CharAt(s, i + 1)
         IN  IF c = ESC THEN VisualFrom(s, i + 1, TRUE)
             ELSE IF inEscape THEN VisualFrom(s, i + 1, c # "m")
             ELSE 1 + VisualFrom(s, i + 1, FALSE)

visualLength(s) == VisualFrom(s, 0, FALSE)

RECURSIVE TruncateFrom(_, _, _, _, _)
\* The loop of truncateAtVisualWidth from byte i (0-based) on.
TruncateFrom(s, maxWidth, i, visualPos, inEscape) ==
    IF i >= Len(s) THEN s
    ELSE LET c == CharAt(s, i + 1)
         IN  IF c = ESC THEN TruncateFrom(s, maxWidth, i + 1, visualPos, TRUE)
             ELSE IF inEscape
             THEN TruncateFrom(s, maxWidth, i + 1, visualPos, c # "m")
             ELSE IF visualPos + 1 >= maxWidth THEN Take(s, i + 1)
             ELSE TruncateFrom(s, maxWidth, i + 1, visualPos + 1, FALSE)

truncateAtVisualWidth(s, maxWidth) ==
    IF maxWidth <= 0 THEN "" ELSE TruncateFrom(s, maxWidth, 0, 0, FALSE)

RECURSIVE BreakFrom(_, _, _, _, _, _)
\* The loop of findBreakPoint from byte i (0-based) on.
BreakFrom(s, maxWidth, i, visualPos, lastSpace, inEscape) ==
    IF i >= Len(s) THEN Len(s)
    ELSE LET c == CharAt(s, i + 1)
         IN  IF c = ESC
             THEN BreakFrom(s, maxWidth, i + 1, visualPos, lastSpace, TRUE)
             ELSE IF inEscape
             THEN BreakFrom(s, maxWidth, i + 1, visualPos, lastSpace, c # "m")
             ELSE LET space == IF c \in {" ", "\t", "-", ",", "."} THEN i
                               ELSE lastSpace
                  IN  IF visualPos + 1 >= maxWidth
                      THEN (IF space > 0 /\ space > i - 20 THEN space + 1 ELSE i)
                      ELSE BreakFrom(s, maxWidth, i + 1, visualPos + 1, space, FALSE)

findBreakPoint(s, maxWidth) ==
    IF maxWidth <= 0 THEN 0 ELSE BreakFrom(s, maxWidth, 0, 0, -1, FALSE)

\* How a computation ends: it returns, it panics (index or slice bounds out
\* of range), or it never returns.
Returns == "returns"
Panics == "panics"
Hangs == "hangs"

RECURSIVE WrapLoopSkipsBreak(_, _)
\* The loop of wrapLine continuing one byte after the break point.
WrapLoopSkipsBreak(remaining, availableWidth) ==
    IF Len(remaining) > 0 /\ visualLength(remaining) > availableWidth
    THEN LET found == findBreakPoint(remaining, availableWidth)
             breakPoint == IF found <= 0 THEN availableWidth ELSE found
         IN  IF breakPoint < 0 \/ breakPoint > Len(remaining)
             THEN [parts |-> << >>, ends |-> Panics]
             ELSE IF breakPoint = 0
             THEN [parts |-> << >>, ends |-> Hangs]
             ELSE LET rest == WrapLoopSkipsBreak(Drop(remaining, breakPoint + 1),
                                                 availableWidth)
                  IN  [parts |-> <<Take(remaining, breakPoint)>> \o rest.parts,
                       ends |-> rest.ends]
    ELSE [parts |-> IF Len(remaining) > 0 THEN <<remaining>> ELSE << >>,
          ends |-> Returns]

RECURSIVE WrapLoop(_, _)
\* The loop of wrapLine and the append after it: the parts, and how the
\* loop ends.  A break point of 0 leaves remaining as it is, so the loop
\* runs forever.
WrapLoop(remaining, availableWidth) ==
    IF Len(remaining) > 0 /\ visualLength(remaining) > availableWidth
    THEN LET found == findBreakPoint(remaining, availableWidth)
             breakPoint == IF found <= 0 THEN availableWidth ELSE found
         IN  IF breakPoint < 0 \/ breakPoint > Len(remaining)
             THEN [parts |-> << >>, ends |-> Panics]
             ELSE IF breakPoint = 0
             THEN [parts |-> << >>, ends |-> Hangs]
             ELSE LET rest == WrapLoop(Drop(remaining, breakPoint), availableWidth)
                  IN  [parts |-> <<Take(remaining, breakPoint)>> \o rest.parts,
                       ends |-> rest.ends]
    ELSE [parts |-> IF Len(remaining) > 0 THEN <<remaining>> ELSE << >>,
          ends |-> Returns]

wrapLine(line, width, lineNum) ==
    IF width <= 0 THEN [parts |-> <<line>>, ends |-> Returns]
    ELSE LET lineNumWidth == 8
             availableWidth == width - lineNumWidth
         IN  IF visualLength(line) <= availableWidth
             THEN [parts |-> <<line>>, ends |-> Returns]
             ELSE WrapLoop(line, availableWidth)

RECURSIVE HighlightFrom(_, _, _, _)
\* The loop of highlightSearchMatches from byte pos (0-based) on.
HighlightFrom(line, lowerLine, searchTerm, pos) ==
    LET lowerTerm == ToLower(searchTerm)
        searchLen == Len(searchTerm)
        idx == Index(Drop(lowerLine, pos), lowerTerm)
        actualIdx == pos + idx
    IN  IF idx = -1 THEN Drop(line, pos)
        ELSE SubSeq(line, pos + 1, actualIdx)
             \o ESC \o "[43m" \o ESC \o "[30m"
             \o SubSeq(line, actualIdx + 1, actualIdx + searchLen)
             \o ESC \o "[0m"
             \o HighlightFrom(line, lowerLine, searchTerm, actualIdx + searchLen)

highlightSearchMatches(line, searchTerm) ==
    IF searchTerm = "" THEN line
    ELSE IF ~Contains(ToLower(line), ToLower(searchTerm)) THEN line
    ELSE HighlightFrom(line, ToLower(line), searchTerm, 0)

\* fmt.Sprintf("%4d | ", n)
LineNumber(n) ==
    LET digits == ToString(n)
    IN  SubSeq("    ", 1, 4 - Len(digits)) \o digits \o " | "

ContinuationGutter == "     : "

\* The lines View displays: the highlighted ones when there are any and
\* highlighting is on.
contentToDisplay(fv) ==
    IF Len(fv.HighlightedContent) > 0 /\ fv.UseSyntaxHighlight
    THEN fv.HighlightedContent
    ELSE fv.Content

\* The rows View writes for one line with wrapping off.
TruncatedRow(fv, line, lineNum) ==
    LET visualLen == visualLength(line)
        availableWidth == fv.Width - 10
    IN  IF availableWidth > 0 /\ visualLen > availableWidth
        THEN lineNum \o truncateAtVisualWidth(line, availableWidth - 3) \o "..."
        ELSE lineNum \o line

RECURSIVE RowsFromUnbudgeted(_, _, _)
\* The content loop of View writing every continuation row of a wrapped
\* line, whatever is left of the budget.
RowsFromUnbudgeted(fv, i, linesRendered) ==
    LET maxVisible == fv.Height - 6
        visibleEnd == Min(fv.ScrollPos + maxVisible, Len(fv.Content))
        display == contentToDisplay(fv)
    IN  IF ~(i < visibleEnd /\ linesRendered < maxVisible)
        THEN [rows |-> << >>, ends |-> Returns]
        ELSE IF i >= Len(display)
        THEN [rows |-> << >>, ends |-> Returns]
        ELSE IF i < 0
        THEN [rows |-> << >>, ends |-> Panics]
        ELSE LET line == IF fv.SearchTerm # ""
                         THEN highlightSearchMatches(display[i + 1], fv.SearchTerm)
                         ELSE display[i + 1]
                 lineNum == LineNumber(i + 1)
             IN  IF fv.WrapLines
                 THEN LET wrapped == wrapLine(line, fv.Width, i + 1)
                          first == IF Len(wrapped.parts) > 0
                                   THEN <<lineNum \o wrapped.parts[1]>>
                                   ELSE << >>
                          room == maxVisible - (linesRendered + Len(first))
                          more == Max(0, Len(wrapped.parts) - 1)
                          continuation ==
                              [j \in 1..more |->
                                  ContinuationGutter \o wrapped.parts[j + 1]]
                          rest == RowsFromUnbudgeted(fv, i + 1,
                                           linesRendered + Len(first) + more)
                      IN  IF wrapped.ends # Returns
                          THEN [rows |-> << >>, ends |-> wrapped.ends]
                          ELSE [rows |-> first \o continuation \o rest.rows,
                                ends |-> rest.ends]
                 ELSE LET rest == RowsFromUnbudgeted(fv, i + 1, linesRendered + 1)
                      IN  [rows |-> <<TruncatedRow(fv, line, lineNum)>> \o rest.rows,
                           ends |-> rest.ends]

RECURSIVE RowsFrom(_, _, _)
\* The content loop of View from line index i (0-based) on: the rows
\* written, without their line feeds, and how the loop ends.
RowsFrom(fv, i, linesRendered) ==
    LET maxVisible == fv.Height - 6
        visibleEnd == Min(fv.ScrollPos + maxVisible, Len(fv.Content))
        display == contentToDisplay(fv)
    IN  IF ~(i < visibleEnd /\ linesRendered < maxVisible)
        THEN [rows |-> << >>, ends |-> Returns]
        ELSE IF i >= Len(display)
        THEN [rows |-> << >>, ends |-> Returns]
        ELSE IF i < 0
        THEN [rows |-> << >>, ends |-> Panics]
        ELSE LET line == IF fv.SearchTerm # ""
                         THEN highlightSearchMatches(display[i + 1], fv.SearchTerm)
                         ELSE display[i + 1]
                 lineNum == LineNumber(i + 1)
             IN  IF fv.WrapLines
                 THEN LET wrapped == wrapLine(line, fv.Width, i + 1)
                          first == IF Len(wrapped.parts) > 0
                                   THEN <<lineNum \o wrapped.parts[1]>>
                                   ELSE << >>
                          room == maxVisible - (linesRendered + Len(first))
                          more == Max(0, Min(Len(wrapped.parts) - 1, room))
                          continuation ==
                              [j \in 1..more |->
                                  ContinuationGutter \o wrapped.parts[j + 1]]
                          rest == RowsFrom(fv, i + 1,
                                           linesRendered + Len(first) + more)
                      IN  IF wrapped.ends # Returns
                          THEN [rows |-> << >>, ends |-> wrapped.ends]
                          ELSE [rows |-> first \o continuation \o rest.rows,
                                ends |-> rest.ends]
                 ELSE LET rest == RowsFrom(fv, i + 1, linesRendered + 1)
                      IN  [rows |-> <<TruncatedRow(fv, line, lineNum)>> \o rest.rows,
                           ends |-> rest.ends]

\* The content rows of the frame.
ContentRows(fv) == RowsFrom(fv, fv.ScrollPos, 0)

\* lipgloss Style.Render of the styles of styles.go.
titleStyle(text) == text \o "\n"

statusStyle(text) == "\n" \o text

helpStyle(text) == "\n" \o text

HelpText ==
    "up/k: up | down/j: down | g: top | G: bottom | Ctrl+u/d: page | :: command | q/Esc: back"

ErrorScreen(err) ==
    "Error loading file: " \o err \o "\n\nPress q or Esc to go back."

RECURSIVE WriteRows(_)
WriteRows(rows) ==
    IF rows = << >> THEN "" ELSE Head(rows) \o "\n" \o WriteRows(Tail(rows))

\* How View ends.
ViewEnds(fv) == IF fv.Err # NoError THEN Returns ELSE ContentRows(fv).ends

\* The frame View builds for a loaded file: title, file info, content rows,
\* footer.
Frame(fv) ==
    titleStyle("Viewing: " \o fv.FileName) \o "\n"
    \o "Lines: " \o ToString(Len(fv.Content))
    \o " | Position: " \o ToString(fv.ScrollPos + 1)
    \o " | " \o (IF fv.WrapLines THEN "Wrap: ON" ELSE "Wrap: OFF") \o "\n\n"
    \o WriteRows(ContentRows(fv).rows)
    \o "\n"
    \o (IF fv.CommandMode THEN ":" \o fv.CommandBuffer
        ELSE IF fv.StatusMessage # ""
        THEN statusStyle(fv.StatusMessage) \o "\n" \o helpStyle(HelpText)
        ELSE helpStyle(HelpText))

\* View drawing the frame also when the file could not be loaded.
ViewWithoutErrorScreen(fv) == Frame(fv)

\* The frame View returns (when it returns).
View(fv) ==
    IF fv.Err # NoError THEN ErrorScreen(fv.Err) ELSE Frame(fv)

----------------------------------------------------------------------------
(* The events the terminal driver delivers.                                *)

\* The texts a user types after ':' and submits (each is typed key by key
\* and may be edited with backspace or abandoned at any prefix).
CommandTexts ==
    { "/AB", "/xab", "/a b", "/Ba", "/ Ab", "/",
      "search Ab", "search a  b", "search",
      "set wrap", "set nowrap", "set syntax", "set nosyntax", "set", "set x",
      "wrap ", "syntax", " n", "next", "N", "prev", "previous",
      "clear", "clearsearch", "help", "h", "j", "G", "x" }

\* The prefixes of the command texts: what the buffer holds while typing.
TypablePrefixes == UNION { { Take(t, i) : i \in 0..Len(t) } : t \in CommandTexts }

IsTypable(text) == text \in TypablePrefixes

\* msg.String() of the key events delivered.
Keys ==
    { "enter", "esc", "ctrl+c", "backspace", "tab",
      "up", "down", "pageup", "pagedown", "ctrl+u", "ctrl+d",
      ":", "q", "k", "j", "g", "G", "n", "N" }
    \cup UNION { { CharAt(t, i) : i \in 1..Len(t) } : t \in CommandTexts }

----------------------------------------------------------------------------
(* Model: the application.  The keys that return tea.Quit ("ctrl+c", and   *)
(* "q" in browse mode) leave the Model as it is and end the event loop:    *)
(* they are the behaviours that stop.                                      *)

Init ==
    /\ Mode = "BrowseMode"
    /\ FileViewer = NoViewer
    /\ Width = 0
    /\ Height = 0
    /\ CurrentPath = WorkingDirectory
    /\ Cursor = 0

\* Model.Update, tea.WindowSizeMsg.
WindowSizeMsg ==
    /\ \E sz \in Sizes :
          /\ Width' = sz[1]
          /\ Height' = sz[2]
          /\ FileViewer' = IF FileViewer # NoViewer
                           THEN [FileViewer EXCEPT !.Height = sz[2], !.Width = sz[1]]
                           ELSE FileViewer
    /\ UNCHANGED <<Mode, Cursor, CurrentPath>>

\* Model.Update, tea.KeyMsg in file-view mode: "q" and "esc".
FileViewBack ==
    /\ Mode = "FileViewMode"
    /\ Mode' = "BrowseMode"
    /\ FileViewer' = NoViewer
    /\ UNCHANGED <<Width, Height, Cursor, CurrentPath>>

\* Model.Update, tea.KeyMsg in file-view mode: every other key goes to
\* the viewer.
FileViewKey ==
    /\ Mode = "FileViewMode"
    /\ \E key \in Keys \ {"q", "esc", "ctrl+c"} :
          /\ FileViewer.CommandMode /\ Len(key) = 1
                => IsTypable(FileViewer.CommandBuffer \o key)
          /\ FileViewer.CommandMode /\ key = "enter"
                => FileViewer.CommandBuffer \in CommandTexts \cup {""}
          /\ FileViewer' = IF FileViewer # NoViewer
                           THEN Update(FileViewer, key)
                           ELSE FileViewer
          /\ FileViewer'.ScrollPos \in -ScrollFloor..ScrollCap
    /\ UNCHANGED <<Mode, Width, Height, Cursor, CurrentPath>>

\* Model.Update, tea.KeyMsg in browse mode: cursor keys.
BrowseMove ==
    /\ Mode = "BrowseMode"
    /\ \E key \in {"up", "k", "down", "j", "g", "G"} :
          Cursor' = CASE key \in {"up", "k"} ->
                             IF Cursor > 0 THEN Cursor - 1 ELSE Cursor
                      [] key \in {"down", "j"} ->
                             IF Cursor < Len(Items) - 1 THEN Cursor + 1 ELSE Cursor
                      [] key = "g" -> 0
                      [] key = "G" ->
                             IF Len(Items) > 0 THEN Len(Items) - 1 ELSE Cursor
    /\ UNCHANGED <<Mode, FileViewer, Width, Height, CurrentPath>>

\* Model.Update, tea.KeyMsg in browse mode: "enter", "l", "right" on a
\* regular file.
OpenFile ==
    /\ Mode = "BrowseMode"
    /\ Len(Items) > 0
    /\ LET selected == Items[Cursor + 1] IN
          /\ ~selected.IsDir
          /\ FileViewer' = [NewFileViewer(selected) EXCEPT
                               !.Height = Height, !.Width = Width]
    /\ Mode' = "FileViewMode"
    /\ UNCHANGED <<Width, Height, Cursor, CurrentPath>>

Next ==
    \/ WindowSizeMsg
    \/ FileViewBack
    \/ FileViewKey
    \/ BrowseMove
    \/ OpenFile

Spec == Init /\ [][Next]_vars

----------------------------------------------------------------------------
(* The viewer driven directly through its exported methods, as a driver    *)
(* or a unit test calls them: every key reaches FileViewer.Update, also    *)
(* the keys Model.Update keeps for itself.                                 *)

InitViewer ==
    /\ Mode = "FileViewMode"
    /\ Cursor \in 0..(Len(Items) - 1)
    /\ FileViewer = NewFileViewer(Items[Cursor + 1])
    /\ Width = 0
    /\ Height = 0
    /\ CurrentPath = WorkingDirectory

\* The caller sets the exported Width and Height fields.
ViewerResize ==
    /\ \E sz \in Sizes :
          /\ Width' = sz[1]
          /\ Height' = sz[2]
          /\ FileViewer' = [FileViewer EXCEPT !.Height = sz[2], !.Width = sz[1]]
    /\ UNCHANGED <<Mode, Cursor, CurrentPath>>

\* FileViewer.Update called with any key.
ViewerUpdate ==
    /\ \E key \in Keys :
          /\ FileViewer.CommandMode /\ Len(key) = 1
                => IsTypable(FileViewer.CommandBuffer \o key)
          /\ FileViewer.CommandMode /\ key = "enter"
                => FileViewer.CommandBuffer \in CommandTexts \cup {""}
          /\ FileViewer' = Update(FileViewer, key)
          /\ FileViewer'.ScrollPos \in -ScrollFloor..ScrollCap
    /\ UNCHANGED <<Mode, Width, Height, Cursor, CurrentPath>>

NextViewer ==
    \/ ViewerResize
    \/ ViewerUpdate

SpecViewer == InitViewer /\ [][NextViewer]_vars

----------------------------------------------------------------------------
(* The loader on a directory of test files: files of every small content   *)
(* written with each line-break convention, files at and around the size   *)
(* ceiling, files that cannot be read.                                     *)

MaxLines == 3

\* The texts of a line: no line break inside, but tabs and stray carriage
\* returns.
LineTexts == <<"", "a", "b", "\tc\r">>

LineBreaks == <<"\n", "\r\n", "\r">>

\* What the highlighter does with a file: it colours every line, it fails,
\* or its output has fewer lines than the file.
TokeniseResults == <<"ok", "error", "fewer">>

\* The bytes of a file whose lines are written with the line break.
Written(lines, break) == Join(lines, break)

\* A test file: the FileItem fields, what the system returns for the file,
\* and how its content was written.
TestFile(lines, break, tokenise, stat, size, read) ==
    [Name |-> "", IsDir |-> FALSE, Stat |-> stat, Size |-> size,
     Read |-> read, Data |-> Written(lines, break), Tokenise |-> tokenise,
     Lines |-> lines, Break |-> break]

\* The small files of n lines: every choice of line texts, line break and
\* highlighter outcome.
SmallFiles(n) ==
    LET texts == Len(LineTexts)
        lists == texts ^ n
        count == lists * Len(LineBreaks) * Len(TokeniseResults)
    IN  [k \in 1..count |->
            LET lines == [i \in 1..n |->
                             LineTexts[(((k - 1) \div (texts ^ (i - 1))) % texts) + 1]]
                break == LineBreaks[(((k - 1) \div lists) % Len(LineBreaks)) + 1]
                tokenise == TokeniseResults[((k - 1) \div (lists * Len(LineBreaks))) + 1]
            IN  TestFile(lines, break, tokenise, NoError,
                         Len(Written(lines, break)), NoError)]

RECURSIVE SmallFilesUpTo(_)
SmallFilesUpTo(n) ==
    IF n = 0 THEN << >> ELSE SmallFilesUpTo(n - 1) \o SmallFiles(n)

\* The sizes os.Stat reports for the large files; of their content only the
\* first bytes are modelled.
LargeSizes == <<maxFileSize - 1, maxFileSize, maxFileSize + 1, 2 * maxFileSize>>

LargeFiles ==
    [k \in 1..(2 * Len(LargeSizes)) |->
        TestFile(<<"a", "b">>, "\n", "ok", NoError,
                 LargeSizes[((k - 1) \div 2) + 1],
                 IF k % 2 = 1 THEN NoError ELSE "permission denied")]

UnreadableFiles ==
    << TestFile(<<"a", "b">>, "\n", "ok", "no such file", 0, NoError),
       TestFile(<<"a">>, "\n", "ok", NoError, 1, "permission denied") >>

\* The directory listing of the test files.
Listing ==
    LET files == SmallFilesUpTo(MaxLines) \o LargeFiles \o UnreadableFiles
    IN  [k \in 1..Len(files) |-> [files[k] EXCEPT !.Name = "f" \o ToString(k)]]

InitLoad ==
    /\ Mode = "BrowseMode"
    /\ FileViewer = NoViewer
    /\ Width = 0
    /\ Height = 0
    /\ CurrentPath = WorkingDirectory
    /\ Cursor \in 0..(Len(Listing) - 1)

\* Model.Update, "enter" on the selected file of the listing.
LoadOpen ==
    /\ Mode = "BrowseMode"
    /\ LET selected == Listing[Cursor + 1] IN
          /\ ~selected.IsDir
          /\ FileViewer' = [NewFileViewer(selected) EXCEPT
                               !.Height = Height, !.Width = Width]
    /\ Mode' = "FileViewMode"
    /\ UNCHANGED <<Width, Height, Cursor, CurrentPath>>

NextLoad ==
    \/ LoadOpen
    \/ FileViewBack
    \/ WindowSizeMsg

SpecLoad == InitLoad /\ [][NextLoad]_vars

----------------------------------------------------------------------------
(* Vocabulary of the properties.                                           *)

HasViewer == FileViewer # NoViewer

\* A viewer whose file was loaded.
Loaded == HasViewer /\ FileViewer.Err = NoError

lineCount(fv) == Len(fv.Content)

\* The number of content rows of the viewport.
viewportHeight(fv) == fv.Height - 6

ScrollLimit(fv) == Max(0, lineCount(fv) - viewportHeight(fv))

ScrollInRange(fv) == 0 <= fv.ScrollPos /\ fv.ScrollPos <= ScrollLimit(fv)

Clamp(x, lo, hi) == IF x < lo THEN lo ELSE IF x > hi THEN hi ELSE x

\* This step is FileViewer.Update handling key.
KeyStep(key) ==
    /\ HasViewer
    /\ HasViewer'
    /\ FileViewer' = Update(FileViewer, key)

\* This step is FileViewer.Update handling "enter" in command mode.
SubmitStep == HasViewer /\ FileViewer.CommandMode /\ KeyStep("enter")

NavKeys == {"up", "k", "down", "j", "g", "G", "pageup", "ctrl+u", "pagedown", "ctrl+d"}

----------------------------------------------------------------------------
(* Scroll position.                                                        *)

\* C1: for a successfully loaded viewer, 0 <= ScrollPos <=
\* max(0, lineCount - viewportHeight) holds in every reachable state, after
\* any sequence of key events and resize events.
C1_ScrollPosInRange == Loaded => ScrollInRange(FileViewer)

\* C2: from a state with 0 <= ScrollPos <= maxScroll, each single navigation
\* key in Normal mode yields a state with 0 <= ScrollPos <= maxScroll again,
\* for every line count and every terminal height.
C2_NavigationKeepsScrollInRange ==
    [][ \A key \in NavKeys :
            (Loaded /\ ~FileViewer.CommandMode /\ ScrollInRange(FileViewer)
                /\ KeyStep(key))
            => ScrollInRange(FileViewer') ]_vars

\* This step is a submitted search that found at least one line.
SearchHitStep == SubmitStep /\ HasPrefix(FileViewer'.StatusMessage, "Found ")

\* C3: a search with a non-empty term that matches at least one line sets
\* CurrentMatchIndex to 0 and ScrollPos to the first match's line index
\* clamped into [0, maxScroll].
C3_SearchSnapsClamped ==
    [][ (Loaded /\ SearchHitStep)
        => /\ FileViewer'.CurrentMatchIndex = 0
           /\ FileViewer'.ScrollPos =
                  Clamp(FileViewer'.SearchMatches[1], 0, ScrollLimit(FileViewer')) ]_vars

----------------------------------------------------------------------------
(* Search.                                                                 *)

\* The term each submitted search text hands to performSearch.
SearchArg ==
    [b \in {"/AB", "/xab", "/a b", "/Ba", "search Ab", "search a  b"} |->
        CASE b = "/AB" -> "AB"
          [] b = "/xab" -> "xab"
          [] b = "/a b" -> "a b"
          [] b = "/Ba" -> "Ba"
          [] b = "search Ab" -> "Ab"
          [] b = "search a  b" -> "a b"]

\* The 0-based indices of the lines that contain term, case-insensitively.
HitLines(fv, term) ==
    { i \in 0..(lineCount(fv) - 1) :
        Contains(ToLower(fv.Content[i + 1]), ToLower(term)) }

\* seq lists exactly the elements of S in ascending order.
IsAscendingListOf(seq, S) ==
    /\ \A j \in 1..(Len(seq) - 1) : seq[j] < seq[j + 1]
    /\ { seq[j] : j \in 1..Len(seq) } = S

\* This step submits the search text b.
SearchStep(b) ==
    /\ HasViewer
    /\ FileViewer.CommandMode
    /\ FileViewer.CommandBuffer = b
    /\ KeyStep("enter")

\* C4: after a search with a non-empty term, SearchMatches is exactly the
\* ascending list of the indices of the lines that contain the term
\* case-insensitively, whatever the search state and toggles were before,
\* and SearchTerm is the lower-cased term; a term in lines {2,5,9} gives
\* SearchMatches = [2,5,9], CurrentMatchIndex = 0, ScrollPos = 2.
C4_SearchFindsAllLines ==
    [][ \A b \in DOMAIN SearchArg :
            SearchStep(b)
            => /\ FileViewer'.SearchTerm = ToLower(SearchArg[b])
               /\ IsAscendingListOf(FileViewer'.SearchMatches,
                                    HitLines(FileViewer, SearchArg[b]))
               /\ HitLines(FileViewer, SearchArg[b]) = {2, 5, 9}
                     => /\ FileViewer'.SearchMatches = <<2, 5, 9>>
                        /\ FileViewer'.CurrentMatchIndex = 0
                        /\ FileViewer'.ScrollPos = 2 ]_vars

C4_Witness ==
    /\ Loaded
    /\ FileViewer.SearchTerm = "ab"
    /\ FileViewer.SearchMatches = <<2, 5, 9>>
    /\ FileViewer.CurrentMatchIndex = 0
    /\ FileViewer.ScrollPos = 2
    /\ ~FileViewer.UseSyntaxHighlight
    /\ FileViewer.StatusMessage = "Found 3 match(es) - n: next, N: prev"

\* f applied k times.
RECURSIVE Times(_, _, _)
Times(f(_), k, fv) == IF k = 0 THEN fv ELSE Times(f, k - 1, f(fv))

\* The state after a match step to index i of n matches.
AtMatch(fv, i, n) ==
    [fv EXCEPT !.CurrentMatchIndex = i,
               !.ScrollPos = fv.SearchMatches[i + 1],
               !.StatusMessage = "Match " \o ToString(i + 1) \o " of " \o ToString(n)]

\* C5: with n >= 1 matches, nextMatch moves CurrentMatchIndex to (i+1) mod n
\* and prevMatch to (i-1) mod n, sets ScrollPos to the line of the new
\* current match and the status to "Match (i+1) of n"; n nextMatch calls
\* return to the starting match and prevMatch undoes nextMatch.
C5_MatchNavigationIsCircular ==
    [][ LET fv == FileViewer
            n == Len(fv.SearchMatches)
            i == fv.CurrentMatchIndex
        IN  (HasViewer /\ ~fv.CommandMode /\ n >= 1)
            => /\ KeyStep("n") => FileViewer' = AtMatch(fv, (i + 1) % n, n)
               /\ KeyStep("N") => FileViewer' = AtMatch(fv, (i - 1) % n, n)
               /\ Times(nextMatch, n, fv).CurrentMatchIndex = i
               /\ Times(prevMatch, n, fv).CurrentMatchIndex = i
               /\ prevMatch(nextMatch(fv)).CurrentMatchIndex = i
               /\ nextMatch(prevMatch(fv)).CurrentMatchIndex = i ]_vars

\* The last match of three, reached by wrapping backwards or stepping on.
C5_Witness ==
    /\ Loaded
    /\ Len(FileViewer.SearchMatches) = 3
    /\ FileViewer.CurrentMatchIndex = 2
    /\ FileViewer.ScrollPos = 9
    /\ FileViewer.StatusMessage = "Match 3 of 3"

\* C6: with no matches, nextMatch and prevMatch (keys n/N, commands n, next,
\* N, prev, previous) change nothing except StatusMessage, which becomes
\* "No active search"; CurrentMatchIndex is and stays -1.
C6_NoActiveSearchIsNoOp ==
    [][ (HasViewer /\ Len(FileViewer.SearchMatches) = 0)
        => /\ (~FileViewer.CommandMode /\ (KeyStep("n") \/ KeyStep("N")))
                 => /\ FileViewer' =
                          [FileViewer EXCEPT !.StatusMessage = "No active search"]
                    /\ FileViewer'.CurrentMatchIndex = -1
           /\ (\E b \in {" n", "next", "N", "prev", "previous"} : SearchStep(b))
                 => /\ FileViewer' =
                          [FileViewer EXCEPT !.StatusMessage = "No active search",
                                             !.CommandMode = FALSE,
                                             !.CommandBuffer = ""]
                    /\ FileViewer'.CurrentMatchIndex = -1 ]_vars

\* "No active search" after a search that found nothing.
C6_Witness ==
    /\ Loaded
    /\ FileViewer.StatusMessage = "No active search"
    /\ FileViewer.SearchTerm = "ba"
    /\ FileViewer.SearchMatches = << >>
    /\ FileViewer.ScrollPos > 0

\* C7: a search for a non-empty term that no line contains leaves
\* SearchMatches empty and CurrentMatchIndex = -1, leaves ScrollPos as it
\* was and sets StatusMessage to a not-found message that contains the
\* search text as typed (not lower-cased).
C7_AbsentTermReported ==
    [][ \A b \in DOMAIN SearchArg :
            (SearchStep(b) /\ HitLines(FileViewer, SearchArg[b]) = {})
            => /\ FileViewer'.SearchMatches = << >>
               /\ FileViewer'.CurrentMatchIndex = -1
               /\ FileViewer'.ScrollPos = FileViewer.ScrollPos
               /\ HasPrefix(FileViewer'.StatusMessage, "Pattern not found")
               /\ Contains(FileViewer'.StatusMessage, SearchArg[b]) ]_vars

C7_Witness ==
    /\ Loaded
    /\ FileViewer.StatusMessage = "Pattern not found: Ba"
    /\ FileViewer.SearchMatches = << >>
    /\ FileViewer.CurrentMatchIndex = -1
    /\ FileViewer.ScrollPos > 0

----------------------------------------------------------------------------
(* Command mode.                                                           *)

\* The command texts that are errors whatever the file is.
ErrorTexts == {"x", "j", "G", "set", "set x", "search"}

\* This step submits a command that is an error.
ErrorStep ==
    \/ \E b \in ErrorTexts : SearchStep(b)
    \/ \E b \in DOMAIN SearchArg :
          SearchStep(b) /\ HitLines(FileViewer, SearchArg[b]) = {}

\* C8: submitting a command that is an error (unknown command, "set" with a
\* missing or unknown option, "search" without a term, a search whose
\* pattern is not found) changes only StatusMessage, besides leaving command
\* mode and emptying the buffer.
C8_ErrorsChangeOnlyStatus ==
    [][ ErrorStep
        => FileViewer' = [FileViewer EXCEPT
                             !.StatusMessage = FileViewer'.StatusMessage,
                             !.CommandMode = FALSE,
                             !.CommandBuffer = ""] ]_vars

\* The viewers NewFileViewer returns for the files of the directory.
FreshViewers == { NewFileViewer(Items[i]) : i \in 1..Len(Items) }

\* C9: in CommandEntry a submit always leads to Normal with CommandMode =
\* FALSE and CommandBuffer = "", whatever the buffer held; for "help" and
\* "h" the status is afterwards the command summary.  CommandMode has only
\* these two values and a new viewer starts in Normal.
C9_SubmitReturnsToNormal ==
    /\ HasViewer
          => /\ FileViewer.CommandMode \in BOOLEAN
             /\ FileViewer.CommandMode
                   => LET after == Update(FileViewer, "enter")
                      IN  /\ after.CommandMode = FALSE
                          /\ after.CommandBuffer = ""
                          /\ FileViewer.CommandBuffer \in {"help", "h"}
                                => /\ after.StatusMessage # ""
                                   /\ HasPrefix(after.StatusMessage, "Commands: ")
    /\ \A fresh \in FreshViewers :
          fresh.CommandMode = FALSE /\ fresh.CommandBuffer = ""

C9_Witness ==
    /\ HasViewer
    /\ ~FileViewer.CommandMode
    /\ FileViewer.CommandBuffer = ""
    /\ HasPrefix(FileViewer.StatusMessage, "Commands: ")

\* What a key other than submit and cancel leaves in the buffer.
EditedBuffer(buffer, key) ==
    IF key = "backspace"
    THEN (IF buffer = "" THEN "" ELSE Take(buffer, Len(buffer) - 1))
    ELSE IF Len(key) = 1 THEN buffer \o key
    ELSE buffer

\* Every key of the set, handled in command mode, only edits the buffer.
OnlyEditsBuffer(keys) ==
    (HasViewer /\ FileViewer.CommandMode)
    => \A key \in keys :
          Update(FileViewer, key) =
              [FileViewer EXCEPT
                  !.CommandBuffer = EditedBuffer(FileViewer.CommandBuffer, key)]

\* C10 as stated: in command mode every key other than submit only edits
\* the buffer (backspace, append, or ignored) and leaves CommandMode and
\* every other field unchanged.
C10_AllButSubmitEditBuffer == OnlyEditsBuffer(Keys \ {"enter"})

\* C10 amended: in command mode every key other than submit and cancel
\* (esc, ctrl+c) only edits the buffer and leaves CommandMode and every
\* other field unchanged.
C10_AllButSubmitCancelEditBuffer ==
    OnlyEditsBuffer(Keys \ {"enter", "esc", "ctrl+c"})

\* "G" typed into the command buffer of a file that could scroll.
C10_Witness ==
    /\ Loaded
    /\ FileViewer.CommandMode
    /\ FileViewer.CommandBuffer = "G"
    /\ FileViewer.ScrollPos = 0
    /\ ScrollLimit(FileViewer) > 0

----------------------------------------------------------------------------
(* Command mode and the application's key dispatch.                        *)

\* C11: in file-view mode while the viewer is in command mode, every key
\* event is consumed by the viewer ("esc" cancels the command, "q" is
\* appended to the buffer): no step taken from such a state leaves
\* file-view mode or discards the viewer.
C11_CommandModeKeysStayInViewer ==
    [][(Mode = "FileViewMode" /\ HasViewer /\ FileViewer.CommandMode)
          => (Mode' = "FileViewMode" /\ HasViewer')]_vars

\* Cancel in command mode, also from a state where the typed text would
\* have run a command.
CancelKeys == {"esc", "ctrl+c"}

\* C12: cancel ("esc") in command mode discards the buffer, sets
\* CommandMode = false and StatusMessage = "", and executes nothing:
\* ScrollPos, WrapLines, UseSyntaxHighlight and the search state are what
\* they were, whatever text had been typed.
C12_CancelExecutesNothing ==
    (HasViewer /\ FileViewer.CommandMode)
    => \A key \in CancelKeys :
          Update(FileViewer, key) =
              [FileViewer EXCEPT !.CommandMode = FALSE,
                                 !.CommandBuffer = "",
                                 !.StatusMessage = ""]

\* Command mode with a complete search command typed over an earlier
\* search that had scrolled the viewport: cancel has something to discard
\* and something to keep.
C12_Witness ==
    /\ Loaded
    /\ FileViewer.CommandMode
    /\ FileViewer.CommandBuffer = "/xab"
    /\ FileViewer.SearchTerm = "ab"
    /\ FileViewer.ScrollPos = 2
    /\ FileViewer.WrapLines

----------------------------------------------------------------------------
(* Commands run from the prompt.                                           *)

RECURSIVE TypeFrom(_, _, _)
\* The keys of text, from its i-th character on, handled one by one.
TypeFrom(fv, text, i) ==
    IF i > Len(text) THEN fv
    ELSE TypeFrom(Update(fv, CharAt(text, i)), text, i + 1)

\* From the empty prompt: the text typed and submitted.
Submit(fv, text) == Update(TypeFrom(fv, text, 1), "enter")

\* From normal mode: ":", the text typed and submitted.
Command(fv, text) == Submit(Update(fv, ":"), text)

\* The viewer shows the empty prompt.
AtPrompt == HasViewer /\ FileViewer.CommandMode /\ FileViewer.CommandBuffer = ""

FlagTexts == {"set wrap", "set nowrap", "wrap ", "set syntax", "set nosyntax", "syntax"}

WrapAfter(text, wrap) ==
    CASE text = "set wrap" -> TRUE
      [] text = "set nowrap" -> FALSE
      [] text = "wrap " -> ~wrap
      [] OTHER -> wrap

SyntaxAfter(text, syntax) ==
    CASE text = "set syntax" -> TRUE
      [] text = "set nosyntax" -> FALSE
      [] text = "syntax" -> ~syntax
      [] OTHER -> syntax

\* C13: "set wrap" / "set nowrap" force WrapLines to true / false whatever
\* its value was and "wrap" negates it, so "set nowrap" then "wrap" gives
\* true and two "wrap" restore the value; the same holds for "set syntax",
\* "set nosyntax" and "syntax" on UseSyntaxHighlight; a wrap command never
\* changes UseSyntaxHighlight and vice versa, and none changes ScrollPos or
\* the search state (nor any field but the flag and the status line).
C13_FlagCommands ==
    AtPrompt =>
        /\ \A text \in FlagTexts :
              LET after == Submit(FileViewer, text)
              IN  after = [FileViewer EXCEPT
                              !.WrapLines = WrapAfter(text, @),
                              !.UseSyntaxHighlight = SyntaxAfter(text, @),
                              !.StatusMessage = after.StatusMessage,
                              !.CommandMode = FALSE]
        /\ Command(Submit(FileViewer, "set nowrap"), "wrap ").WrapLines
        /\ Command(Submit(FileViewer, "wrap "), "wrap ").WrapLines
               = FileViewer.WrapLines
        /\ Command(Submit(FileViewer, "set nosyntax"), "syntax").UseSyntaxHighlight
        /\ Command(Submit(FileViewer, "syntax"), "syntax").UseSyntaxHighlight
               = FileViewer.UseSyntaxHighlight

\* "set nosyntax" has just run in a viewer that wraps and shows a search
\* match below the top.
C13_Witness ==
    /\ Loaded
    /\ ~FileViewer.CommandMode
    /\ FileViewer.StatusMessage = "Syntax highlighting disabled"
    /\ ~FileViewer.UseSyntaxHighlight
    /\ FileViewer.WrapLines
    /\ FileViewer.SearchTerm = "ab"
    /\ FileViewer.ScrollPos = 2

\* C14: submitting "/ <text>" (the slash as a separate first token) runs a
\* search for the remaining tokens joined by single spaces: it produces the
\* same SearchTerm, SearchMatches, CurrentMatchIndex, ScrollPos and status
\* as submitting "search <text>".
C14_SlashTokenIsSearch ==
    [][SearchStep("/ Ab")
          => FileViewer' = Submit([FileViewer EXCEPT !.CommandBuffer = ""],
                                  "search Ab")]_vars

ClearTexts == {"/", "clear", "clearsearch"}

\* The viewer with its search cleared.
Cleared(fv) ==
    [fv EXCEPT !.SearchTerm = "",
               !.SearchMatches = <<>>,
               !.CurrentMatchIndex = -1,
               !.StatusMessage = "Search cleared"]

\* C15: searching for the empty text ("/" alone), "clear" and "clearsearch"
\* are equivalent: each sets SearchTerm = "", SearchMatches = [],
\* CurrentMatchIndex = -1 and the status "Search cleared" and leaves
\* ScrollPos and the wrap and highlight flags unchanged; clearing again
\* changes nothing.
C15_ClearSearch ==
    AtPrompt =>
        \A text \in ClearTexts :
            LET after == Submit(FileViewer, text)
            IN  /\ after = [Cleared(FileViewer) EXCEPT !.CommandMode = FALSE]
                /\ \A again \in ClearTexts :
                      Command(after, again) = after

\* A search that had scrolled the viewport has just been cleared.
C15_Witness ==
    /\ Loaded
    /\ ~FileViewer.CommandMode
    /\ FileViewer.StatusMessage = "Search cleared"
    /\ FileViewer.SearchTerm = ""
    /\ FileViewer.SearchMatches = <<>>
    /\ FileViewer.CurrentMatchIndex = -1
    /\ FileViewer.ScrollPos = 5
    /\ FileViewer.WrapLines

----------------------------------------------------------------------------
(* Loading.                                                                *)

\* The file of the listing the viewer was constructed for.
File == Listing[Cursor + 1]

Readable(file) == file.Stat = NoError /\ file.Read = NoError

\* C16: loading succeeds for every file size up to 10*1024*1024 bytes,
\* the ceiling included, and fails with the size-limit error from the
\* ceiling plus one on; on that failure Err is set, Content and
\* HighlightedContent stay empty and the file is not read (a file that
\* cannot be read still reports the size limit) nor highlighted.
C16_SizeCeiling ==
    (HasViewer /\ File.Stat = NoError)
    => /\ (File.Size <= 10 * 1024 * 1024 /\ File.Read = NoError)
             => /\ FileViewer.Err = NoError
                /\ Len(FileViewer.Content) >= 1
                /\ Len(FileViewer.HighlightedContent) >= 1
       /\ File.Size >= 10 * 1024 * 1024 + 1
             => /\ FileViewer.Err = "file too large (max 10MB)"
                /\ FileViewer.Content = << >>
                /\ FileViewer.HighlightedContent = << >>

\* A file of exactly the ceiling has been loaded.
C16_Witness ==
    /\ HasViewer
    /\ File.Size = 10 * 1024 * 1024
    /\ Readable(File)
    /\ FileViewer.Err = NoError
    /\ FileViewer.Content = <<"a", "b">>

\* The file with the same lines written with another line break.
Rewritten(file, break) ==
    [file EXCEPT !.Data = Written(file.Lines, break), !.Break = break]

\* C18: for any file content, the lines loaded from the content with every
\* line break written as CRLF are identical (same count, same strings) to
\* the lines loaded from the same content with every line break written as
\* a bare LF.
C18_CrlfLoadsAsLf ==
    (HasViewer /\ Readable(File) /\ File.Break = "\r\n")
    => FileViewer.Content = NewFileViewer(Rewritten(File, "\n")).Content

\* Three lines written with CRLF, one of them with a tab and a stray
\* carriage return, have been loaded.
C18_Witness ==
    /\ HasViewer
    /\ File.Break = "\r\n"
    /\ File.Lines = <<"a", "\tc\r", "">>
    /\ FileViewer.Content = <<"a", "    c", "">>

\* The lines of the file as a viewer shows them: carriage returns deleted,
\* tabs expanded.
ShownLine(text) == ReplaceAll(ReplaceAll(text, "\r", ""), "\t", "    ")

\* C19 as stated: a bare CR is normalized to the same line break as CRLF
\* and LF before splitting: content whose lines are separated by bare CR
\* ("a\rb") loads to the same lines ("a", "b") as the LF-separated content.
C19_BareCrIsLineBreak ==
    (HasViewer /\ Readable(File) /\ File.Break = "\r")
    => FileViewer.Content = NewFileViewer(Rewritten(File, "\n")).Content

\* C19 amended: a bare CR is deleted before splitting, it is not a line
\* break: content whose lines are separated by bare CR ("a\rb") loads as
\* one line, the lines joined ("ab").
C19_BareCrIsDeleted ==
    (HasViewer /\ Readable(File) /\ File.Break = "\r")
    => FileViewer.Content = <<ShownLine(Join(File.Lines, ""))>>

\* "a\rb" has been loaded.
C19_Witness ==
    /\ HasViewer
    /\ File.Data = "a\rb"
    /\ FileViewer.Err = NoError
    /\ FileViewer.Content = <<"ab">>

\* The viewer of a file that could not be loaded.
Failed == HasViewer /\ FileViewer.Err # NoError

\* C17: a load error is terminal for the viewer: once Err is set at
\* construction, after any sequence of key and resize events the frame is
\* the error screen and nothing else (no content rows, no command prompt),
\* Err is never cleared or replaced, and "q" / "esc" still returns the
\* application to browse mode.
C17_LoadErrorIsTerminal ==
    /\ [](Failed =>
             /\ View(FileViewer) =
                   "Error loading file: file too large (max 10MB)\n\nPress q or Esc to go back."
             /\ ENABLED (FileViewBack /\ Mode' = "BrowseMode" /\ ~HasViewer'))
    /\ [][(Failed /\ HasViewer') => FileViewer'.Err = FileViewer.Err]_vars

\* The viewer of the file that is too large, after a resize, in command
\* mode with a command typed.
C17_Witness ==
    /\ Failed
    /\ Width = 40
    /\ FileViewer.Width = 40
    /\ FileViewer.CommandMode
    /\ FileViewer.CommandBuffer = "set wrap"
    /\ FileViewer.Content = << >>

----------------------------------------------------------------------------
(* Rendering: the viewer on files of two lines, the first made of visible  *)
(* characters and colour sequences, in narrow terminals.                   *)

MaxPieces == 6

\* What the first line is made of: a letter, a space, a colour sequence.
LinePieces == <<"a", " ", ESC \o "[1m">>

RECURSIVE Pieces(_, _)
\* The line of n pieces numbered k (0-based), in base Len(LinePieces).
Pieces(n, k) ==
    IF n = 0 THEN ""
    ELSE LinePieces[(k % Len(LinePieces)) + 1]
         \o Pieces(n - 1, k \div Len(LinePieces))

\* The files whose first line has n pieces, with each highlighter outcome.
RenderFiles(n) ==
    LET lines == Len(LinePieces) ^ n
    IN  [k \in 1..(lines * Len(TokeniseResults)) |->
            LET first == Pieces(n, (k - 1) % lines)
                tokenise == TokeniseResults[((k - 1) \div lines) + 1]
            IN  TestFile(<<first, "b">>, "\n", tokenise, NoError,
                         Len(first) + 2, NoError)]

RECURSIVE RenderFilesUpTo(_)
RenderFilesUpTo(n) ==
    IF n = 0 THEN << >> ELSE RenderFilesUpTo(n - 1) \o RenderFiles(n)

RenderListing ==
    LET files == RenderFilesUpTo(MaxPieces)
    IN  [k \in 1..Len(files) |-> [files[k] EXCEPT !.Name = "r" \o ToString(k)]]

\* Terminal sizes <<width, height>>: one to three content rows, widths
\* around the widths of the gutters.
RenderSizes == { <<w, h>> : w \in 7..15, h \in 7..9 }

InitRender ==
    /\ Mode = "FileViewMode"
    /\ Cursor \in 0..(Len(RenderListing) - 1)
    /\ FileViewer = NewFileViewer(RenderListing[Cursor + 1])
    /\ Width = 0
    /\ Height = 0
    /\ CurrentPath = WorkingDirectory

\* The caller sets the exported Width and Height fields.
RenderResize ==
    /\ \E sz \in RenderSizes :
          /\ Width' = sz[1]
          /\ Height' = sz[2]
          /\ FileViewer' = [FileViewer EXCEPT !.Height = sz[2], !.Width = sz[1]]
    /\ UNCHANGED <<Mode, Cursor, CurrentPath>>

\* FileViewer.Update called with the keys of the command ":wrap".
RenderWrap ==
    /\ FileViewer' = Command(FileViewer, "wrap")
    /\ UNCHANGED <<Mode, Width, Height, Cursor, CurrentPath>>

NextRender ==
    \/ RenderResize
    \/ RenderWrap

SpecRender == InitRender /\ [][NextRender]_vars

RECURSIVE InEscapeAfter(_, _, _)
\* Whether the text ends inside a colour sequence.
InEscapeAfter(s, i, inEscape) ==
    IF i >= Len(s) THEN inEscape
    ELSE LET c == CharAt(s, i + 1)
         IN  InEscapeAfter(s, i + 1, c = ESC \/ (inEscape /\ c # "m"))

EndsWith(s, suffix) ==
    Len(s) >= Len(suffix) /\ Drop(s, Len(s) - Len(suffix)) = suffix

\* The row is the numbered row of line number n, cut to the available
\* width: gutter, a prefix of the line that ends outside a colour
\* sequence, the ellipsis, at most width visible characters.
IsTruncatedRow(row, line, n, width) ==
    /\ HasPrefix(row, LineNumber(n))
    /\ LET text == TrimPrefix(row, LineNumber(n))
           kept == Take(text, Len(text) - 3)
       IN  /\ EndsWith(text, "...")
           /\ HasPrefix(line, kept)
           /\ ~InEscapeAfter(kept, 0, FALSE)
           /\ visualLength(text) <= width

\* C20: with wrapping off, every line whose visible length exceeds the
\* available width (Width - 10) is rendered as exactly one numbered row
\* that ends with the ellipsis and has at most the available width of
\* visible characters (colour sequences excluded, none cut), for every
\* terminal width at which the available width is positive.
C20_TruncatedRowFits ==
    (Loaded /\ ~FileViewer.WrapLines /\ FileViewer.Width - 10 > 0)
    => LET rows == ContentRows(FileViewer).rows
           display == contentToDisplay(FileViewer)
       IN  /\ Len(rows) = Min(Max(0, FileViewer.Height - 6),
                              Len(display) - FileViewer.ScrollPos)
           /\ \A k \in 1..Len(rows) :
                 LET line == display[FileViewer.ScrollPos + k]
                 IN  visualLength(line) > FileViewer.Width - 10
                     => IsTruncatedRow(rows[k], line, FileViewer.ScrollPos + k,
                                       FileViewer.Width - 10)

----------------------------------------------------------------------------
(* Wrapping.                                                               *)

RECURSIVE Concat(_)
\* The strings of the sequence, one after the other.
Concat(parts) ==
    IF parts = << >> THEN "" ELSE Head(parts) \o Concat(Tail(parts))

\* The lines of the viewer as they are handed to wrapLine.
ShownLines(fv) ==
    LET display == contentToDisplay(fv)
    IN  [i \in 1..Len(display) |->
            highlightSearchMatches(display[i], fv.SearchTerm)]

\* wrapLine splits the line into several segments, none with more visible
\* characters than the available width, that concatenate to the line.
WrapsWell(line, width) ==
    LET wrapped == wrapLine(line, width, 1)
    IN  /\ wrapped.ends = Returns
        /\ Len(wrapped.parts) >= 2
        /\ \A j \in 1..Len(wrapped.parts) :
              visualLength(wrapped.parts[j]) <= width - 8
        /\ Concat(wrapped.parts) = line

\* C21: with wrapping on, wrapLine splits a line longer than the available
\* width (Width - 8) into several segments such that no segment has more
\* visible characters than the available width and the segments in order
\* concatenate to the line, for every line and every width with positive
\* available width.
C21_WrapSplitsLosslessly ==
    (Loaded /\ FileViewer.WrapLines /\ FileViewer.Width - 8 > 0)
    => \A i \in 1..Len(ShownLines(FileViewer)) :
          LET line == ShownLines(FileViewer)[i]
          IN  visualLength(line) > FileViewer.Width - 8
              => WrapsWell(line, FileViewer.Width)

\* Wrapping is on at available width 2 and the first line, five visible
\* characters with a space among them and a colour sequence, is split in
\* three segments or more.
C21_Witness ==
    /\ Loaded
    /\ FileViewer.WrapLines
    /\ FileViewer.Width = 10
    /\ FileViewer.Content[1] = "aa a" \o ESC \o "[1m" \o "a"
    /\ Len(wrapLine(contentToDisplay(FileViewer)[1], 10, 1).parts) >= 3

----------------------------------------------------------------------------
(* Search state while scrolling.                                           *)

SearchState(fv) == <<fv.SearchTerm, fv.SearchMatches, fv.CurrentMatchIndex>>

Flags(fv) == <<fv.WrapLines, fv.UseSyntaxHighlight>>

\* The command texts that run a search or clear it, and those that move to
\* another match.
SearchTexts ==
    { t \in CommandTexts :
         \/ HasPrefix(TrimSpace(t), "/")
         \/ Fields(t)[1] \in {"search", "clear", "clearsearch"} }

MatchTexts ==
    { t \in CommandTexts : Fields(t)[1] \in {"n", "next", "N", "prev", "previous"} }

\* This step is a scroll key handled by the viewer, or a resize.
ScrollKeyStep == \E key \in NavKeys : KeyStep(key)

ResizeStep == HasViewer /\ HasViewer' /\ (Width' # Width \/ Height' # Height)

\* This step submits a search or clear command; this step moves to another
\* match.
SearchOrClearStep == \E b \in SearchTexts : SearchStep(b)

MatchNavigationStep ==
    \/ ~FileViewer.CommandMode /\ (KeyStep("n") \/ KeyStep("N"))
    \/ \E b \in MatchTexts : SearchStep(b)

\* The viewer stays and its search state changes in this step.
SearchStateChanges ==
    HasViewer /\ HasViewer' /\ SearchState(FileViewer') # SearchState(FileViewer)

\* The scroll keys and resizes leave the search state and the flags alone.
ScrollingKeepsSearch ==
    \/ ~(HasViewer /\ HasViewer')
    \/ /\ SearchState(FileViewer') = SearchState(FileViewer)
       /\ Flags(FileViewer') = Flags(FileViewer)
    \/ ~(ScrollKeyStep \/ ResizeStep)

\* C22 as stated: an active search persists while scrolling: the scroll
\* keys and resize events never change SearchTerm, SearchMatches,
\* CurrentMatchIndex, WrapLines or UseSyntaxHighlight; only a new search or
\* a clear command changes the search state.
C22_OnlySearchChangesSearchState ==
    [][/\ ScrollingKeepsSearch
       /\ SearchStateChanges => SearchOrClearStep]_vars

\* C22 amended: the scroll keys and resize events never change SearchTerm,
\* SearchMatches, CurrentMatchIndex, WrapLines or UseSyntaxHighlight; only
\* a new search or a clear command changes SearchTerm and SearchMatches,
\* and only these and the match navigation (n, N, next, prev, previous)
\* change CurrentMatchIndex.
C22_ScrollingKeepsSearchState ==
    [][/\ ScrollingKeepsSearch
       /\ SearchStateChanges =>
             \/ SearchOrClearStep
             \/ /\ FileViewer'.SearchTerm = FileViewer.SearchTerm
                /\ FileViewer'.SearchMatches = FileViewer.SearchMatches
                /\ MatchNavigationStep]_vars

\* The second of three matches is current, and the viewport has been
\* scrolled back to the top in a resized terminal.
C22_Witness ==
    /\ Loaded
    /\ FileViewer.SearchTerm = "ab"
    /\ FileViewer.SearchMatches = <<2, 5, 9>>
    /\ FileViewer.CurrentMatchIndex = 1
    /\ FileViewer.ScrollPos = 0
    /\ FileViewer.Height = 12

StrictlyAscending(seq) ==
    \A j \in 1..(Len(seq) - 1) : seq[j] < seq[j + 1]

\* C23: SearchMatches is strictly ascending and every element is a valid
\* line index (0 <= idx < lineCount) in every reachable state, after any
\* sequence of searches, clears, match navigation and scrolling.
C23_MatchesAscendingAndValid ==
    HasViewer =>
        /\ StrictlyAscending(FileViewer.SearchMatches)
        /\ \A j \in 1..Len(FileViewer.SearchMatches) :
              /\ 0 <= FileViewer.SearchMatches[j]
              /\ FileViewer.SearchMatches[j] < lineCount(FileViewer)

\* Three matches, the last on the last line of the file, after match
\* navigation to the last match and scrolling away from it.
C23_Witness ==
    /\ Loaded
    /\ lineCount(FileViewer) = 10
    /\ FileViewer.SearchMatches = <<2, 5, 9>>
    /\ FileViewer.CurrentMatchIndex = 2
    /\ FileViewer.ScrollPos = 8

----------------------------------------------------------------------------
(* Viewer lifecycle.                                                       *)

\* A viewer as it is right after construction, with the terminal size.
Fresh(fv, width, height) ==
    /\ fv.ScrollPos = 0
    /\ ~fv.CommandMode
    /\ fv.CommandBuffer = ""
    /\ fv.StatusMessage = ""
    /\ fv.SearchTerm = ""
    /\ fv.SearchMatches = << >>
    /\ fv.CurrentMatchIndex = -1
    /\ ~fv.WrapLines
    /\ fv.UseSyntaxHighlight
    /\ fv.Width = width
    /\ fv.Height = height

\* C24: in every reachable application state Mode = FileViewMode exactly
\* when a FileViewer exists; each file open creates a fresh viewer
\* (ScrollPos 0, normal mode, empty buffer, no search, CurrentMatchIndex -1,
\* wrap off, highlighting on) carrying the current terminal size, and
\* "q" / "esc" discards it, so nothing of one viewing session is visible in
\* the next.
C24_ViewerLifecycle ==
    /\ [](Mode = "FileViewMode" <=> HasViewer)
    /\ [][/\ (Mode = "BrowseMode" /\ Mode' = "FileViewMode")
             => /\ HasViewer'
                /\ Fresh(FileViewer', Width, Height)
                /\ FileViewer'.FileName = Items[Cursor + 1].Name
          /\ (Mode = "FileViewMode" /\ Mode' = "BrowseMode")
             => FileViewer' = NoViewer]_vars

\* The second file has just been opened in a terminal that was resized
\* during an earlier session or before the first one.
C24_Witness ==
    /\ Loaded
    /\ FileViewer.FileName = "crlf.txt"
    /\ Fresh(FileViewer, 40, 12)
    /\ Width = 40

----------------------------------------------------------------------------
(* Scrolling: the viewer of the long file in terminals of every height     *)
(* from 0 to MaxHeight, driven by the navigation keys.                     *)

MaxHeight == 14

InitScroll ==
    /\ Mode = "FileViewMode"
    /\ Cursor = 0
    /\ FileViewer = NewFileViewer(Items[Cursor + 1])
    /\ Width = 0
    /\ Height = 0
    /\ CurrentPath = WorkingDirectory

\* The caller sets the exported Width and Height fields.
ScrollResize ==
    /\ \E h \in 0..MaxHeight :
          /\ Width' = 20
          /\ Height' = h
          /\ FileViewer' = [FileViewer EXCEPT !.Height = h, !.Width = 20]
    /\ UNCHANGED <<Mode, Cursor, CurrentPath>>

\* FileViewer.Update called with a navigation key.
ScrollKey ==
    /\ \E key \in NavKeys :
          /\ FileViewer' = Update(FileViewer, key)
          /\ FileViewer'.ScrollPos \in -ScrollFloor..ScrollCap
    /\ UNCHANGED <<Mode, Width, Height, Cursor, CurrentPath>>

NextScroll ==
    \/ ScrollResize
    \/ ScrollKey

SpecScroll == InitScroll /\ [][NextScroll]_vars

\* Where a navigation key leaves the viewport: s the position, vh the
\* viewport height, the halves as the integer division of the code gives
\* them (rounded toward zero).
ScrollTarget(key, s, vh, maxScroll) ==
    CASE key \in {"up", "k"} -> Max(0, s - 1)
      [] key \in {"down", "j"} -> Min(maxScroll, s + 1)
      [] key = "g" -> 0
      [] key = "G" -> maxScroll
      [] key \in {"pageup", "ctrl+u"} -> Max(0, s - GoDiv(vh, 2))
      [] key \in {"pagedown", "ctrl+d"} -> Min(maxScroll, s + GoDiv(vh, 2))

\* C25: from a state with 0 <= s = ScrollPos <= maxScroll and viewport
\* height vh, the navigation keys compute exactly: up -> max(0, s-1);
\* down -> min(maxScroll, s+1); g -> 0; G -> maxScroll; half-page up ->
\* max(0, s - vh div 2); half-page down -> min(maxScroll, s + vh div 2),
\* with maxScroll = max(0, lineCount - vh); no other field changes.
C25_NavigationKeysCompute ==
    (Loaded /\ ~FileViewer.CommandMode /\ ScrollInRange(FileViewer))
    => \A key \in NavKeys :
          Update(FileViewer, key) =
              [FileViewer EXCEPT !.ScrollPos =
                  ScrollTarget(key, FileViewer.ScrollPos,
                               viewportHeight(FileViewer),
                               Max(0, lineCount(FileViewer)
                                          - viewportHeight(FileViewer)))]

\* A viewport of 5 rows, half a page below the top.
C25_Witness ==
    /\ Loaded
    /\ ~FileViewer.CommandMode
    /\ FileViewer.Height = 11
    /\ FileViewer.ScrollPos = 2
    /\ ScrollInRange(FileViewer)

\* C26: a resize event changes only Width and Height (of the model and of
\* the open viewer) and leaves ScrollPos untouched; if this leaves
\* ScrollPos > maxScroll for the new height, then any single subsequent
\* navigation key (up, down, g, G, half-page up or down) brings ScrollPos
\* back into [0, maxScroll].
C26_NavigationReclampsAfterResize ==
    [][ResizeStep =>
          /\ FileViewer' = [FileViewer EXCEPT !.Width = Width', !.Height = Height']
          /\ UNCHANGED <<Mode, Cursor>>
          /\ (/\ ~FileViewer'.CommandMode
              /\ FileViewer'.Err = NoError
              /\ FileViewer'.ScrollPos > ScrollLimit(FileViewer'))
             => \A key \in NavKeys :
                   ScrollInRange(Update(FileViewer', key))]_vars

----------------------------------------------------------------------------
(* A highlighter that returns fewer lines than the file has.               *)

\* The 0-based indices of the lines in the viewport.
VisibleIndices(fv) ==
    { i \in 0..(Len(fv.Content) - 1) :
        fv.ScrollPos <= i /\ i < fv.ScrollPos + viewportHeight(fv) }

\* C27: when highlighting is on and the highlighted lines are fewer than
\* the lines of the file (but not none), every line of the viewport whose
\* index is beyond the highlighted lines is still rendered, as its plain
\* text under its own line number; none is dropped or rendered blank.
\* Stated for the frames with wrapping off, where every line is one row.
C27_ShortHighlightFallsBack ==
    (/\ Loaded
     /\ FileViewer.UseSyntaxHighlight
     /\ ~FileViewer.WrapLines
     /\ Len(FileViewer.HighlightedContent) > 0
     /\ Len(FileViewer.HighlightedContent) < Len(FileViewer.Content))
    => LET rows == ContentRows(FileViewer).rows
       IN  \A i \in VisibleIndices(FileViewer) :
              i >= Len(FileViewer.HighlightedContent)
              => \E k \in 1..Len(rows) :
                    rows[k] = TruncatedRow(FileViewer, FileViewer.Content[i + 1],
                                           LineNumber(i + 1))

----------------------------------------------------------------------------
(* A highlighter that fails.                                               *)

\* The lines of the file as plain text: carriage returns deleted (a bare
\* CR between two lines joins them), tabs expanded.
PlainLines(file) ==
    IF file.Break = "\r"
    THEN <<ShownLine(Join(file.Lines, ""))>>
    ELSE [i \in 1..Len(file.Lines) |-> ShownLine(file.Lines[i])]

\* The numbered rows of the plain lines in the viewport.
PlainRows(fv) ==
    LET n == Max(0, Min(viewportHeight(fv), Len(fv.Content) - fv.ScrollPos))
    IN  [k \in 1..n |->
            LineNumber(fv.ScrollPos + k) \o fv.Content[fv.ScrollPos + k]]

\* C28: if the highlighter's tokenise or format step fails, loading still
\* succeeds: Err stays unset, Content is the normalized plain lines,
\* HighlightedContent equals Content, the rendered rows are those of the
\* plain lines, and neither a status message nor an error screen tells of
\* the failure.
C28_HighlighterFailureIsSilent ==
    (/\ HasViewer
     /\ Readable(File)
     /\ File.Size <= maxFileSize
     /\ File.Tokenise = "error")
    => /\ FileViewer.Err = NoError
       /\ FileViewer.Content = PlainLines(File)
       /\ FileViewer.HighlightedContent = FileViewer.Content
       /\ FileViewer.StatusMessage = ""
       /\ ContentRows(FileViewer).rows = PlainRows(FileViewer)
       /\ ~Contains(View(FileViewer), "Error")

\* A file with a tab and a stray carriage return whose highlighting failed
\* is shown in a terminal of twelve rows as two plain numbered rows.
C28_Witness ==
    /\ HasViewer
    /\ File.Tokenise = "error"
    /\ File.Lines = <<"a", "\tc\r">>
    /\ FileViewer.Height = 12
    /\ ContentRows(FileViewer).rows = <<"   1 | a", "   2 |     c">>

----------------------------------------------------------------------------
(* The row budget of a frame.                                              *)

IsContinuationRow(row) == HasPrefix(row, ContinuationGutter)

\* The numbered rows among the rows, in order.
NumberedRows(rows) == SelectSeq(rows, LAMBDA row : ~IsContinuationRow(row))

\* C29: in every rendered frame the content rows (numbered rows and
\* continuation rows) are at most max(0, Height - 6), with wrapping on or
\* off; the continuation rows of a wrapped line use the same budget, so
\* the numbered rows are those of the lines ScrollPos + 1, ScrollPos + 2,
\* ... in order without a gap, each first row before its continuation
\* rows, and fewer lines are shown when a line takes several rows.
C29_RowsWithinBudget ==
    (Loaded /\ ViewEnds(FileViewer) = Returns)
    => LET rows == ContentRows(FileViewer).rows
           numbered == NumberedRows(rows)
           budget == Max(0, FileViewer.Height - 6)
       IN  /\ Len(rows) <= budget
           /\ rows # << >> => ~IsContinuationRow(rows[1])
           /\ FileViewer.ScrollPos + Len(numbered) <= Len(FileViewer.Content)
           /\ \A k \in 1..Len(numbered) :
                 HasPrefix(numbered[k], LineNumber(FileViewer.ScrollPos + k))
           /\ ~FileViewer.WrapLines => numbered = rows

\* With wrapping on and a budget of two rows, the first line takes both
\* rows (one numbered, one continuation) and the second line is not shown.
C29_Witness ==
    /\ Loaded
    /\ FileViewer.WrapLines
    /\ FileViewer.Height = 8
    /\ FileViewer.Width = 10
    /\ FileViewer.Content = <<"aaaaa", "b">>
    /\ ~FileViewer.UseSyntaxHighlight \/ FileViewer.HighlightedContent = FileViewer.Content
    /\ ViewEnds(FileViewer) = Returns
    /\ ContentRows(FileViewer).rows = <<"   1 | a", "     : a">>

----------------------------------------------------------------------------
(* Termination of the render step.                                         *)

\* C30: every event is handled to completion: wrapLine terminates for
\* every line and every terminal width, the widths at which the available
\* width (Width - 8) is zero or negative included, and no render step
\* loops forever.  Stated for the viewers with wrapping on, whose frames
\* call wrapLine for the lines in the viewport.
C30_WrapLineTerminates ==
    (Loaded /\ FileViewer.WrapLines)
    => /\ \A i \in 1..Len(ShownLines(FileViewer)) :
             wrapLine(ShownLines(FileViewer)[i], FileViewer.Width, i).ends # Hangs
       /\ ViewEnds(FileViewer) # Hangs

----------------------------------------------------------------------------
(* Search markers in highlighted lines.                                    *)

\* The terms searched for: a letter of the text, and bytes that occur in
\* colour sequences only.
MarkTerms == {"a", "m", "1", "["}

\* The viewer of a file of the render listing in a terminal of 40 columns
\* and 8 rows.
InitMark ==
    /\ Mode = "FileViewMode"
    /\ Cursor \in 0..(Len(RenderListing) - 1)
    /\ Width = 40
    /\ Height = 8
    /\ CurrentPath = WorkingDirectory
    /\ FileViewer = [NewFileViewer(RenderListing[Cursor + 1]) EXCEPT
                        !.Height = 8, !.Width = 40]

\* FileViewer.Update called with the keys of the command ":/term".
MarkSearch ==
    /\ \E term \in MarkTerms : FileViewer' = Command(FileViewer, "/" \o term)
    /\ UNCHANGED <<Mode, Width, Height, Cursor, CurrentPath>>

\* FileViewer.Update called with the keys of the command ":syntax".
MarkSyntax ==
    /\ FileViewer' = Command(FileViewer, "syntax")
    /\ UNCHANGED <<Mode, Width, Height, Cursor, CurrentPath>>

NextMark ==
    \/ MarkSearch
    \/ MarkSyntax

SpecMark == InitMark /\ [][NextMark]_vars

\* The marker written before a match.
MarkerStart == ESC \o "[43m" \o ESC \o "[30m"

\* The 0-based positions at which sub starts in s.
Positions(s, sub) ==
    { i \in 0..(Len(s) - Len(sub)) : SubSeq(s, i + 1, i + Len(sub)) = sub }

RECURSIVE CountFrom(_, _, _)
\* strings.Count from byte pos on: the occurrences that do not overlap.
CountFrom(s, sub, pos) ==
    LET idx == IndexFrom(s, sub, pos)
    IN  IF idx = -1 THEN 0 ELSE 1 + CountFrom(s, sub, idx + Len(sub))

\* C31: in a displayed line that is the highlighted variant of a plain
\* line, the search markers are around the occurrences of the term in the
\* visible text only: no marker starts inside a colour sequence, and the
\* marked occurrences are as many as the occurrences of the term in the
\* plain line, also for a term such as "m", "[" or a digit.
C31_MarkersSkipColourSequences ==
    (/\ Loaded
     /\ FileViewer.SearchTerm # ""
     /\ FileViewer.UseSyntaxHighlight)
    => \A i \in 1..Len(FileViewer.HighlightedContent) :
          (i <= Len(FileViewer.Content) /\ ~Contains(FileViewer.Content[i], ESC))
          => LET shown == highlightSearchMatches(FileViewer.HighlightedContent[i],
                                                 FileViewer.SearchTerm)
             IN  /\ \A p \in Positions(shown, MarkerStart) :
                       ~InEscapeAfter(Take(shown, p), 0, FALSE)
                 /\ Cardinality(Positions(shown, MarkerStart))
                       = CountFrom(ToLower(FileViewer.Content[i]),
                                   FileViewer.SearchTerm, 0)

----------------------------------------------------------------------------
(* The line indices View reads.                                            *)

\* The 0-based line indices the content loop of View reads: from ScrollPos
\* up to the end of the viewport, of the file and of the displayed lines.
IndicesRead(fv) ==
    { i \in (-ScrollFloor)..ScrollCap :
        /\ fv.ScrollPos <= i
        /\ i < fv.ScrollPos + viewportHeight(fv)
        /\ i < Len(fv.Content)
        /\ i < Len(contentToDisplay(fv)) }

\* C32: rendering never reads a line at an index outside [0, lineCount):
\* after any sequence of key and resize events (heights below 6 rows
\* followed by an enlargement, search snaps to the last line), ScrollPos
\* is not negative when View indexes the content, and View does not fault.
C32_ViewReadsValidIndices ==
    Loaded
    => /\ \A i \in IndicesRead(FileViewer) : 0 <= i /\ i < lineCount(FileViewer)
       /\ IndicesRead(FileViewer) # {} => FileViewer.ScrollPos >= 0
       /\ ViewEnds(FileViewer) # Panics

----------------------------------------------------------------------------
(* The current match.                                                      *)

\* CurrentMatchIndex is -1 when there is no match and an index of
\* SearchMatches otherwise.
CurrentMatchValid(fv) ==
    IF fv.SearchMatches = << >>
    THEN fv.CurrentMatchIndex = -1
    ELSE 0 <= fv.CurrentMatchIndex /\ fv.CurrentMatchIndex < Len(fv.SearchMatches)

\* This step is a search that reports the matches it found, or a step to
\* the next or the previous match of a search with matches.
MatchStep ==
    /\ HasViewer
    /\ HasViewer'
    /\ FileViewer'.SearchMatches # << >>
    /\ \/ SearchOrClearStep /\ HasPrefix(FileViewer'.StatusMessage, "Found ")
       \/ MatchNavigationStep

\* C33: in every reachable viewer state CurrentMatchIndex = -1 exactly
\* when SearchMatches is empty, and otherwise 0 <= CurrentMatchIndex <
\* len(SearchMatches); right after a successful search or a next/prev
\* step, ScrollPos is the line SearchMatches[CurrentMatchIndex].
C33_CurrentMatchIsValid ==
    /\ [](HasViewer => CurrentMatchValid(FileViewer))
    /\ [][MatchStep
            => /\ CurrentMatchValid(FileViewer')
               /\ FileViewer'.ScrollPos =
                     FileViewer'.SearchMatches[FileViewer'.CurrentMatchIndex + 1]]_vars

\* The step back from the first of three matches has wrapped to the last
\* one, on the last line of the file.
C33_Witness ==
    /\ Loaded
    /\ FileViewer.SearchMatches = <<2, 5, 9>>
    /\ FileViewer.CurrentMatchIndex = 2
    /\ FileViewer.ScrollPos = 9
    /\ FileViewer.StatusMessage = MatchStatus(2, 3)

----------------------------------------------------------------------------
(* Browsing directories.                                                   *)

\* How deep the directories of drive C: go.
MaxDepth == 3

Sep == "\\"

\* filepath.VolumeName of a path with a drive letter.
VolumeName(path) == Take(path, 2)

\* strings.LastIndex, 0-based, -1 when sub does not occur in s.
LastIndex(s, sub) ==
    LET at == { j \in 0..(Len(s) - Len(sub)) : SubSeq(s, j + 1, j + Len(sub)) = sub }
    IN  IF at = {} THEN -1 ELSE CHOOSE j \in at : \A k \in at : k <= j

\* filepath.Dir of a clean absolute path: the path without its last
\* element; the root is its own parent.
Dir(path) ==
    LET i == LastIndex(path, Sep)
    IN  IF i <= Len(VolumeName(path))
        THEN VolumeName(path) \o Sep
        ELSE Take(path, i)

\* filepath.Base: the last element of the path, empty for the root.
Base(path) == Drop(path, LastIndex(path, Sep) + 1)

\* filepath.Join of a directory and a name.
JoinPath(dir, name) ==
    IF CharAt(dir, Len(dir)) = Sep THEN dir \o name ELSE dir \o Sep \o name

RECURSIVE Depth(_)
\* The number of elements of the path below the root.
Depth(path) == IF Dir(path) = path THEN 0 ELSE 1 + Depth(Dir(path))

\* os.ReadDir.  On drive C: every directory above the deepest level has
\* the subdirectories "a" and "b", the directories "a" hold the files, and
\* the deepest directories "b" cannot be read.  On drive D: the root cannot
\* be read and the directory below it is empty.
ReadDir(path) ==
    IF VolumeName(path) = "D:"
    THEN [err |-> IF Dir(path) = path THEN "access denied" ELSE NoError,
          dirs |-> << >>, files |-> << >>]
    ELSE [err |-> IF Depth(path) = MaxDepth /\ Base(path) = "b"
                  THEN "access denied" ELSE NoError,
          dirs |-> IF Depth(path) < MaxDepth THEN <<"a", "b">> ELSE << >>,
          files |-> IF Base(path) = "a" THEN Items ELSE << >>]

\* Model.loadDirectory for CurrentPath = path: what it leaves in Items,
\* Cursor and Err.
loadDirectory(path) ==
    LET parentEntry ==
            IF path # VolumeName(path) \o Sep
            THEN << [Name |-> "..", Path |-> Dir(path), IsDir |-> TRUE] >>
            ELSE << >>
        entries == ReadDir(path)
        dirs == [k \in 1..Len(entries.dirs) |->
                    [Name |-> entries.dirs[k],
                     Path |-> JoinPath(path, entries.dirs[k]),
                     IsDir |-> TRUE]]
        files == [k \in 1..Len(entries.files) |->
                    [Path |-> JoinPath(path, entries.files[k].Name)]
                    @@ entries.files[k]]
    IN  IF entries.err # NoError
        THEN [Items |-> parentEntry, Cursor |-> 0, Err |-> entries.err]
        ELSE [Items |-> parentEntry \o dirs \o files, Cursor |-> 0, Err |-> NoError]

\* The "down" branch comparing the cursor with the length of the list.
MoveCursorPastEnd(key, cursor, n) ==
    CASE key \in {"up", "k"} -> IF cursor > 0 THEN cursor - 1 ELSE cursor
      [] key \in {"down", "j"} -> IF cursor < n THEN cursor + 1 ELSE cursor
      [] key = "g" -> 0
      [] key = "G" -> IF n > 0 THEN n - 1 ELSE cursor

\* Model.Update in browse mode, the cursor keys on a list of n items.
MoveCursor(key, cursor, n) ==
    CASE key \in {"up", "k"} -> IF cursor > 0 THEN cursor - 1 ELSE cursor
      [] key \in {"down", "j"} -> IF cursor < n - 1 THEN cursor + 1 ELSE cursor
      [] key = "g" -> 0
      [] key = "G" -> IF n > 0 THEN n - 1 ELSE cursor

\* The directories the program is started in.
StartPaths == {WorkingDirectory, "D:" \o Sep \o "x"}

\* Model.Items: loadDirectory ran when CurrentPath was last set.
CurrentItems == loadDirectory(CurrentPath).Items

\* NewModel.
InitBrowse ==
    /\ Mode = "BrowseMode"
    /\ FileViewer = NoViewer
    /\ Width = 0
    /\ Height = 0
    /\ CurrentPath \in StartPaths
    /\ Cursor = loadDirectory(CurrentPath).Cursor

\* Model.Update, tea.KeyMsg in browse mode: the cursor keys.
BrowseCursor ==
    /\ Mode = "BrowseMode"
    /\ \E key \in {"up", "k", "down", "j", "g", "G"} :
          Cursor' = MoveCursor(key, Cursor, Len(CurrentItems))
    /\ UNCHANGED <<Mode, FileViewer, Width, Height, CurrentPath>>

\* Model.Update, tea.KeyMsg in browse mode: "enter", "l", "right".  An
\* index outside Items faults; the step is not taken.
BrowseEnter ==
    /\ Mode = "BrowseMode"
    /\ Len(CurrentItems) > 0
    /\ Cursor + 1 \in DOMAIN CurrentItems
    /\ LET selected == CurrentItems[Cursor + 1] IN
          IF selected.IsDir
          THEN /\ CurrentPath' = selected.Path
               /\ Cursor' = loadDirectory(selected.Path).Cursor
               /\ UNCHANGED <<Mode, FileViewer, Width, Height>>
          ELSE /\ FileViewer' = [NewFileViewer(selected) EXCEPT
                                    !.Height = Height, !.Width = Width]
               /\ Mode' = "FileViewMode"
               /\ UNCHANGED <<Width, Height, Cursor, CurrentPath>>

\* Model.Update, tea.KeyMsg in browse mode: "h", "left", "backspace".
BrowseParent ==
    /\ Mode = "BrowseMode"
    /\ LET parent == Dir(CurrentPath) IN
          IF parent # CurrentPath
          THEN /\ CurrentPath' = parent
               /\ Cursor' = loadDirectory(parent).Cursor
          ELSE UNCHANGED <<Cursor, CurrentPath>>
    /\ UNCHANGED <<Mode, FileViewer, Width, Height>>

NextBrowse ==
    \/ WindowSizeMsg
    \/ BrowseCursor
    \/ BrowseEnter
    \/ BrowseParent
    \/ FileViewBack

SpecBrowse == InitBrowse /\ [][NextBrowse]_vars

\* C34: in browse mode, after any sequence of keys (up/down/g/G, entering
\* a directory, going to the parent) 0 <= Cursor < len(Items) whenever
\* Items is non-empty and Cursor = 0 when it is empty; every directory load
\* resets Cursor to 0, so that the open action never indexes Items out of
\* range.
C34_CursorWithinItems ==
    /\ [](Mode = "BrowseMode"
            => IF CurrentItems = << >>
               THEN Cursor = 0
               ELSE 0 <= Cursor /\ Cursor < Len(CurrentItems))
    /\ [][CurrentPath' # CurrentPath => Cursor' = 0]_vars

\* The cursor is on the last of the six items of a directory that was
\* entered from its parent.
C34_Witness ==
    /\ Mode = "BrowseMode"
    /\ CurrentPath = "C:\\a\\a"
    /\ Len(CurrentItems) = 6
    /\ Cursor = 5
    /\ CurrentItems[Cursor + 1].Name = "huge.bin"

====
